---- MODULE Spec2Model ----
(***************************************************************************)
(* Suggestion aggregation and ranking engine of eco-route-ai: the rate     *)
(* limiter, the gazetteer matcher, the relevance scorer, the deduplicator  *)
(* and the two suggestion handlers, as state machines checked by TLC.      *)
(*                                                                         *)
(* A JavaScript string is a sequence of one-character strings, so that     *)
(* toLowerCase, trim, startsWith, includes and split are computed.  An     *)
(* absent (undefined) origin or destination is the empty string: every use *)
(* in the source goes through `x || ''` or `x || undefined`, which do not  *)
(* tell the two apart.                                                     *)
(***************************************************************************)
EXTENDS Integers, Sequences, FiniteSets, TLC

----------------------------------------------------------------------------
(* Strings *)

\* The sequence with the given elements as a tuple: a function [i \in 1..n |->
\* e] is the same value, and TLC keeps it evaluated in this form.
Tuple(f) == f \o <<>>

UpperChars == <<"A","B","C","D","E","F","G","H","I","J","K","L","M",
                "N","O","P","Q","R","S","T","U","V","W","X","Y","Z">>

LowerChars == <<"a","b","c","d","e","f","g","h","i","j","k","l","m",
                "n","o","p","q","r","s","t","u","v","w","x","y","z">>

CharLower == [c \in {UpperChars[i] : i \in 1..26} |->
                LowerChars[CHOOSE i \in 1..26 : UpperChars[i] = c]]

\* String.prototype.toLowerCase
toLowerCase(s) ==
  Tuple([i \in 1..Len(s) |-> IF s[i] \in DOMAIN CharLower THEN CharLower[s[i]] ELSE s[i]])

IsSpace(c) == c = " "

RECURSIVE trimStart(_)
trimStart(s) ==
  IF s # <<>> /\ IsSpace(Head(s)) THEN trimStart(Tail(s)) ELSE s

RECURSIVE trimEnd(_)
trimEnd(s) ==
  IF s # <<>> /\ IsSpace(s[Len(s)]) THEN trimEnd(SubSeq(s, 1, Len(s) - 1)) ELSE s

\* String.prototype.trim
trim(s) == trimEnd(trimStart(s))

\* String.prototype.startsWith
startsWith(s, p) == Len(p) <= Len(s) /\ SubSeq(s, 1, Len(p)) = p

\* String.prototype.includes
includes(s, p) ==
  \E i \in 1..(Len(s) - Len(p) + 1) : SubSeq(s, i, i + Len(p) - 1) = p

\* s.split(/\s+/): the pieces between maximal runs of whitespace; a leading
\* or trailing run leaves an empty piece, and '' splits to [''].
RECURSIVE splitFrom(_, _)
splitFrom(s, cur) ==
  IF s = <<>> THEN <<cur>>
  ELSE IF IsSpace(Head(s))
       THEN <<cur>> \o splitFrom(trimStart(s), <<>>)
       ELSE splitFrom(Tail(s), Append(cur, Head(s)))

splitWhitespace(s) == splitFrom(s, <<>>)

\* Primary collation weight of a character: the space sorts before letters,
\* letters sort alphabetically whatever their case.
CharRank(c) ==
  LET l == IF c \in DOMAIN CharLower THEN CharLower[c] ELSE c
  IN  IF \E i \in 1..26 : LowerChars[i] = l
      THEN CHOOSE i \in 1..26 : LowerChars[i] = l
      ELSE 0

RECURSIVE comparePrimary(_, _)
comparePrimary(a, b) ==
  IF a = <<>> /\ b = <<>> THEN 0
  ELSE IF a = <<>> THEN -1
  ELSE IF b = <<>> THEN 1
  ELSE IF CharRank(Head(a)) < CharRank(Head(b)) THEN -1
  ELSE IF CharRank(Head(a)) > CharRank(Head(b)) THEN 1
  ELSE comparePrimary(Tail(a), Tail(b))

RECURSIVE compareCase(_, _)
compareCase(a, b) ==
  IF a = <<>> \/ b = <<>> THEN 0
  ELSE IF Head(a) = Head(b) THEN compareCase(Tail(a), Tail(b))
  ELSE IF Head(a) \in DOMAIN CharLower THEN 1 ELSE -1

\* String.prototype.localeCompare on letters and spaces: alphabetical
\* whatever the case, then lower case before upper case.
localeCompare(a, b) ==
  IF comparePrimary(a, b) # 0 THEN comparePrimary(a, b) ELSE compareCase(a, b)

----------------------------------------------------------------------------
(* Gazetteer *)

US_STATES ==
  << <<"A","l","a","b","a","m","a">>,
     <<"A","l","a","s","k","a">>,
     <<"A","r","i","z","o","n","a">>,
     <<"A","r","k","a","n","s","a","s">>,
     <<"C","a","l","i","f","o","r","n","i","a">>,
     <<"C","o","l","o","r","a","d","o">>,
     <<"C","o","n","n","e","c","t","i","c","u","t">>,
     <<"D","e","l","a","w","a","r","e">>,
     <<"F","l","o","r","i","d","a">>,
     <<"G","e","o","r","g","i","a">>,
     <<"H","a","w","a","i","i">>,
     <<"I","d","a","h","o">>,
     <<"I","l","l","i","n","o","i","s">>,
     <<"I","n","d","i","a","n","a">>,
     <<"I","o","w","a">>,
     <<"K","a","n","s","a","s">>,
     <<"K","e","n","t","u","c","k","y">>,
     <<"L","o","u","i","s","i","a","n","a">>,
     <<"M","a","i","n","e">>,
     <<"M","a","r","y","l","a","n","d">>,
     <<"M","a","s","s","a","c","h","u","s","e","t","t","s">>,
     <<"M","i","c","h","i","g","a","n">>,
     <<"M","i","n","n","e","s","o","t","a">>,
     <<"M","i","s","s","i","s","s","i","p","p","i">>,
     <<"M","i","s","s","o","u","r","i">>,
     <<"M","o","n","t","a","n","a">>,
     <<"N","e","b","r","a","s","k","a">>,
     <<"N","e","v","a","d","a">>,
     <<"N","e","w"," ","H","a","m","p","s","h","i","r","e">>,
     <<"N","e","w"," ","J","e","r","s","e","y">>,
     <<"N","e","w"," ","M","e","x","i","c","o">>,
     <<"N","e","w"," ","Y","o","r","k">>,
     <<"N","o","r","t","h"," ","C","a","r","o","l","i","n","a">>,
     <<"N","o","r","t","h"," ","D","a","k","o","t","a">>,
     <<"O","h","i","o">>,
     <<"O","k","l","a","h","o","m","a">>,
     <<"O","r","e","g","o","n">>,
     <<"P","e","n","n","s","y","l","v","a","n","i","a">>,
     <<"R","h","o","d","e"," ","I","s","l","a","n","d">>,
     <<"S","o","u","t","h"," ","C","a","r","o","l","i","n","a">>,
     <<"S","o","u","t","h"," ","D","a","k","o","t","a">>,
     <<"T","e","n","n","e","s","s","e","e">>,
     <<"T","e","x","a","s">>,
     <<"U","t","a","h">>,
     <<"V","e","r","m","o","n","t">>,
     <<"V","i","r","g","i","n","i","a">>,
     <<"W","a","s","h","i","n","g","t","o","n">>,
     <<"W","e","s","t"," ","V","i","r","g","i","n","i","a">>,
     <<"W","i","s","c","o","n","s","i","n">>,
     <<"W","y","o","m","i","n","g">> >>

MAJOR_CITIES ==
  << <<"N","e","w"," ","Y","o","r","k">>,
     <<"L","o","s"," ","A","n","g","e","l","e","s">>,
     <<"C","h","i","c","a","g","o">>,
     <<"H","o","u","s","t","o","n">>,
     <<"P","h","o","e","n","i","x">>,
     <<"P","h","i","l","a","d","e","l","p","h","i","a">>,
     <<"S","a","n"," ","A","n","t","o","n","i","o">>,
     <<"S","a","n"," ","D","i","e","g","o">>,
     <<"D","a","l","l","a","s">>,
     <<"S","a","n"," ","J","o","s","e">>,
     <<"A","u","s","t","i","n">>,
     <<"J","a","c","k","s","o","n","v","i","l","l","e">>,
     <<"F","o","r","t"," ","W","o","r","t","h">>,
     <<"C","o","l","u","m","b","u","s">>,
     <<"C","h","a","r","l","o","t","t","e">>,
     <<"S","a","n"," ","F","r","a","n","c","i","s","c","o">>,
     <<"I","n","d","i","a","n","a","p","o","l","i","s">>,
     <<"S","e","a","t","t","l","e">>,
     <<"D","e","n","v","e","r">>,
     <<"W","a","s","h","i","n","g","t","o","n">>,
     <<"B","o","s","t","o","n">>,
     <<"E","l"," ","P","a","s","o">>,
     <<"N","a","s","h","v","i","l","l","e">>,
     <<"D","e","t","r","o","i","t">>,
     <<"O","k","l","a","h","o","m","a"," ","C","i","t","y">>,
     <<"P","o","r","t","l","a","n","d">>,
     <<"L","a","s"," ","V","e","g","a","s">>,
     <<"M","e","m","p","h","i","s">>,
     <<"L","o","u","i","s","v","i","l","l","e">>,
     <<"B","a","l","t","i","m","o","r","e">>,
     <<"M","i","l","w","a","u","k","e","e">>,
     <<"A","l","b","u","q","u","e","r","q","u","e">>,
     <<"T","u","c","s","o","n">>,
     <<"F","r","e","s","n","o">>,
     <<"S","a","c","r","a","m","e","n","t","o">>,
     <<"K","a","n","s","a","s"," ","C","i","t","y">>,
     <<"M","e","s","a">>,
     <<"A","t","l","a","n","t","a">>,
     <<"O","m","a","h","a">>,
     <<"C","o","l","o","r","a","d","o"," ","S","p","r","i","n","g","s">>,
     <<"R","a","l","e","i","g","h">>,
     <<"V","i","r","g","i","n","i","a"," ","B","e","a","c","h">>,
     <<"M","i","a","m","i">>,
     <<"O","a","k","l","a","n","d">>,
     <<"M","i","n","n","e","a","p","o","l","i","s">>,
     <<"T","u","l","s","a">>,
     <<"C","l","e","v","e","l","a","n","d">>,
     <<"W","i","c","h","i","t","a">>,
     <<"A","r","l","i","n","g","t","o","n">>,
     <<"T","a","m","p","a">>,
     <<"N","e","w"," ","O","r","l","e","a","n","s">> >>

\* getAllUSLocations: the states, then the cities, ids by 0-based index
getAllUSLocations ==
  Tuple([i \in 1..Len(US_STATES) |->
     [id |-> <<"state", i - 1>>, name |-> US_STATES[i], type |-> "state"]])
  \o
  Tuple([i \in 1..Len(MAJOR_CITIES) |->
     [id |-> <<"city", i - 1>>, name |-> MAJOR_CITIES[i], type |-> "city"]])

\* Array.prototype.sort is stable and the comparators used here are
\* consistent orderings, so the result is determined: element i goes after
\* every element that compares smaller and every earlier element that
\* compares equal.  cmp[j, i] is the comparator's value on (s[j], s[i]).
stableSort(s, cmp) ==
  LET n == Len(s)
      rank == Tuple([i \in 1..n |->
                 1 + Cardinality({j \in 1..n :
                       \/ cmp[j, i] < 0
                       \/ cmp[j, i] = 0 /\ j < i})])
  IN  Tuple([k \in 1..n |-> s[CHOOSE i \in 1..n : rank[i] = k]])

\* Array.prototype.slice(0, n)
slice0(s, n) == SubSeq(s, 1, IF Len(s) < n THEN Len(s) ELSE n)

\* the comparator without its prefix tier: exact matches, then by name
locationCompareNoPrefix(a, b, q) ==
  LET aExact == toLowerCase(a.name) = q
      bExact == toLowerCase(b.name) = q
  IN  IF aExact /\ ~bExact THEN -1
      ELSE IF ~aExact /\ bExact THEN 1
      ELSE localeCompare(a.name, b.name)

\* the comparator of filterUSLocations
locationCompare(a, b, q) ==
  LET aLower == toLowerCase(a.name)
      bLower == toLowerCase(b.name)
      aExact == aLower = q
      bExact == bLower = q
  IN  IF aExact /\ ~bExact THEN -1
      ELSE IF ~aExact /\ bExact THEN 1
      ELSE IF startsWith(aLower, q) /\ ~startsWith(bLower, q) THEN -1
      ELSE IF ~startsWith(aLower, q) /\ startsWith(bLower, q) THEN 1
      ELSE localeCompare(a.name, b.name)

filterUSLocations(query, limit) ==
  LET q == toLowerCase(trim(query))
      Keep(location) == includes(toLowerCase(location.name), q)
      filtered == SelectSeq(getAllUSLocations, Keep)
      cmp == [a \in 1..Len(filtered), b \in 1..Len(filtered) |->
                locationCompare(filtered[a], filtered[b], q)]
  IN  IF q = <<>> THEN <<>>
      ELSE slice0(stableSort(filtered, cmp), limit)

----------------------------------------------------------------------------
(* Relevance scorer and identity key *)

\* the character U+2192 of the identity key and of the route labels
Arrow == "->"

\* words.some((w) => w.startsWith(qw))
someStartsWith(words, qw) == \E i \in 1..Len(words) : startsWith(words[i], qw)

normalizeRoute(origin, destination) ==
  LET o == trim(toLowerCase(origin))
      d == trim(toLowerCase(destination))
  IN  IF o # <<>> /\ d # <<>> THEN o \o <<Arrow>> \o d
      ELSE IF d # <<>> THEN d ELSE o

\* the scorer with the substring tier tested before the prefix tier
calculateRelevanceScoreSubstringFirst(suggestion, query) ==
  LET q == trim(toLowerCase(query))
      origin == toLowerCase(suggestion.origin)
      destination == toLowerCase(suggestion.destination)
      queryWords == splitWhitespace(q)
      hasWordMatch ==
        \E k \in 1..Len(queryWords) :
          \/ someStartsWith(splitWhitespace(origin), queryWords[k])
          \/ someStartsWith(splitWhitespace(destination), queryWords[k])
  IN  IF origin = q \/ destination = q THEN 100
      ELSE IF includes(origin, q) \/ includes(destination, q) THEN 60
      ELSE IF startsWith(origin, q) \/ startsWith(destination, q) THEN 80
      ELSE IF hasWordMatch THEN 40 ELSE 20

calculateRelevanceScore(suggestion, query) ==
  LET q == trim(toLowerCase(query))
      origin == toLowerCase(suggestion.origin)
      destination == toLowerCase(suggestion.destination)
      originWords == splitWhitespace(origin)
      destWords == splitWhitespace(destination)
      queryWords == splitWhitespace(q)
      hasWordMatch ==
        \E k \in 1..Len(queryWords) :
          \/ someStartsWith(originWords, queryWords[k])
          \/ someStartsWith(destWords, queryWords[k])
  IN  IF origin = q \/ destination = q THEN 100
      ELSE IF startsWith(origin, q) \/ startsWith(destination, q) THEN 80
      ELSE IF includes(origin, q) \/ includes(destination, q) THEN 60
      ELSE IF hasWordMatch THEN 40 ELSE 20

----------------------------------------------------------------------------
(* Deduplicator *)

\* the priorities with the provider's candidates on top
sourcePriorityAIFirst(source) ==
  CASE source = "static" -> 1
    [] source = "database" -> 2
    [] source = "ai" -> 3
    [] OTHER -> 0

\* const sourcePriority = { static: 3, database: 2, ai: 1 }; ... || 0
sourcePriority(source) ==
  CASE source = "static" -> 3
    [] source = "database" -> 2
    [] source = "ai" -> 1
    [] OTHER -> 0

\* the replacement test with >= on the score: a later equal candidate wins
replacesOnTie(sug, existing) ==
  \/ sourcePriority(sug.source) > sourcePriority(existing.source)
  \/ /\ sourcePriority(sug.source) = sourcePriority(existing.source)
     /\ sug.relevanceScore >= existing.relevanceScore

\* the branch of deduplicateSuggestions taken when the key is already seen:
\* TRUE when sug replaces the existing entry
replaces(sug, existing) ==
  \/ sourcePriority(sug.source) > sourcePriority(existing.source)
  \/ /\ sourcePriority(sug.source) = sourcePriority(existing.source)
     /\ sug.relevanceScore > existing.relevanceScore

\* an iteration that looks only at the entry added last, as a deduplication
\* of adjacent duplicates would
seenStepAdjacent(seen, sug) ==
  LET key == normalizeRoute(sug.origin, sug.destination)
  IN  IF seen = <<>> \/ seen[Len(seen)].key # key
      THEN Append(seen, [key |-> key, value |-> sug])
      ELSE IF replaces(sug, seen[Len(seen)].value)
           THEN [seen EXCEPT ![Len(seen)] = [key |-> key, value |-> sug]]
           ELSE seen

\* One iteration of the loop on the Map `seen`, kept as the sequence of its
\* entries in insertion order: a set() on a present key keeps its position.
seenStep(seen, sug) ==
  LET key == normalizeRoute(sug.origin, sug.destination)
  IN  IF \A i \in 1..Len(seen) : seen[i].key # key
      THEN Append(seen, [key |-> key, value |-> sug])
      ELSE Tuple([i \in 1..Len(seen) |->
              IF seen[i].key = key /\ replaces(sug, seen[i].value)
              THEN [key |-> key, value |-> sug]
              ELSE seen[i]])

RECURSIVE seenLoop(_, _)
seenLoop(seen, suggestions) ==
  IF suggestions = <<>> THEN seen
  ELSE seenLoop(seenStep(seen, Head(suggestions)), Tail(suggestions))

deduplicateSuggestions(suggestions) ==
  LET seen == seenLoop(<<>>, suggestions)
  IN  Tuple([i \in 1..Len(seen) |-> seen[i].value])

----------------------------------------------------------------------------
(* The three sources *)

Boston == <<"B","o","s","t","o","n">>

NewYork == <<"N","e","w"," ","Y","o","r","k">>

labelRoute(origin, destination) == origin \o <<" ", Arrow, " ">> \o destination

labelRouteMode(origin, destination, mode) ==
  labelRoute(origin, destination) \o <<" ", "(">> \o mode \o <<")">>

\* the gazetteer limit of the suggestion endpoint: filterUSLocations(q, 10)
STATIC_LIMIT == 10

\* the boost added to the score of a gazetteer suggestion
STATIC_BOOST == 10

getStaticSuggestions(query) ==
  LET q == trim(query)
      locations == filterUSLocations(q, STATIC_LIMIT)
  IN  IF q = <<>> THEN <<>>
      ELSE Tuple([i \in 1..Len(locations) |->
              [id |-> <<"static">> \o locations[i].id,
               label |-> locations[i].name,
               origin |-> locations[i].name,
               destination |-> locations[i].name,
               type |-> locations[i].type,
               source |-> "static",
               relevanceScore |->
                 calculateRelevanceScore(
                   [origin |-> locations[i].name,
                    destination |-> locations[i].name], q) + STATIC_BOOST]])

\* take: 20 of the trip query
DB_TAKE == 20

\* uniqueTrips.slice(0, 10)
DB_LIMIT == 10

\* Array.prototype.reverse
reverse(s) == Tuple([i \in 1..Len(s) |-> s[Len(s) + 1 - i]])

\* prisma.trip.findMany: the rows whose origin or destination contains q
\* (LIKE on SQLite: case-insensitive on ASCII), most recently created first,
\* at most 20.  `store` holds the rows in creation order.
findMany(store, q) ==
  LET Match(trip) == \/ includes(toLowerCase(trip.origin), toLowerCase(q))
                     \/ includes(toLowerCase(trip.destination), toLowerCase(q))
  IN  slice0(SelectSeq(reverse(store), Match), DB_TAKE)

tripKey(trip) == toLowerCase(trip.origin) \o <<Arrow>> \o toLowerCase(trip.destination)

\* the filter keeping the last row of each key instead of the first
uniqueTripsKeepsLast(rows) ==
  LET idx == {i \in 1..Len(rows) :
                \A j \in (i + 1)..Len(rows) : tripKey(rows[j]) # tripKey(rows[i])}
      Keep(trip) == \E i \in idx : rows[i] = trip
  IN  SelectSeq(rows, Keep)

\* trips.filter with the Set `seen`: the first row of each key is kept
uniqueTrips(rows) ==
  LET idx == {i \in 1..Len(rows) :
                \A j \in 1..(i - 1) : tripKey(rows[j]) # tripKey(rows[i])}
      Keep(trip) == \E i \in idx : rows[i] = trip
  IN  SelectSeq(rows, Keep)

\* How an async function settles: resolved with a value, or rejected with an
\* error whose `status` is 0 when it has none (a TypeError, a Prisma error).
\* `queried` tells whether the outside service (trip store, provider) was
\* called.
resolved(value, queried) ==
  [threw |-> FALSE, status |-> 0, value |-> value, queried |-> queried]

rejected(status) ==
  [threw |-> TRUE, status |-> status, value |-> <<>>, queried |-> TRUE]

\* a catch block that lets the error through
dbCatchRethrows(outcome) == outcome

\* catch (error) { console.error(...); return []; }
dbCatch(outcome) == IF outcome.threw THEN resolved(<<>>, TRUE) ELSE outcome

\* the try block of getDatabaseSuggestions; dbFails: the trip store query
\* throws
dbTry(q, store, dbFails) ==
  LET picked == slice0(uniqueTrips(findMany(store, q)), DB_LIMIT)
  IN  IF dbFails THEN rejected(0)
      ELSE resolved(
             Tuple([i \in 1..Len(picked) |->
               [id |-> <<"db", picked[i].id>>,
                label |-> labelRoute(picked[i].origin, picked[i].destination),
                origin |-> picked[i].origin,
                destination |-> picked[i].destination,
                type |-> "route",
                source |-> "database",
                relevanceScore |->
                  calculateRelevanceScore(
                    [origin |-> picked[i].origin,
                     destination |-> picked[i].destination], q)]]), TRUE)

getDatabaseSuggestions(query, store, dbFails) ==
  LET q == trim(query)
  IN  IF Len(q) < 2 THEN resolved(<<>>, FALSE)
      ELSE dbCatch(dbTry(q, store, dbFails))

\* the flat score of the two suggestions returned without a provider key
AI_FALLBACK_SCORE == 30

\* suggestions.slice(0, 8)
AI_LIMIT == 8

\* the two mock suggestions returned when no provider key is configured;
\* they carry no type
aiFallback(query) ==
  << [id |-> <<"ai", 1>>,
      label |-> labelRouteMode(query, Boston, <<"t","r","a","i","n">>),
      origin |-> query, destination |-> Boston, type |-> "none",
      source |-> "ai", relevanceScore |-> AI_FALLBACK_SCORE],
     [id |-> <<"ai", 2>>,
      label |-> labelRouteMode(query, NewYork, <<"b","u","s">>),
      origin |-> query, destination |-> NewYork, type |-> "none",
      source |-> "ai", relevanceScore |-> AI_FALLBACK_SCORE] >>

\* one item s of the provider's array, after the mapping of the legacy
\* shapes; an absent field is the empty string
aiItem(s, idx, query) ==
  LET isRoute == \/ s.type = "route"
                 \/ s.origin # <<>> /\ s.destination # <<>> /\ s.origin # s.destination
      destination == IF s.destination # <<>> THEN s.destination ELSE s.name
      origin == s.origin
      asRoute == isRoute /\ origin # <<>> /\ destination # <<>>
  IN  [id |-> <<"ai", idx>>,
       label |-> IF asRoute
                 THEN (IF s.mode # <<>>
                       THEN labelRouteMode(origin, destination, s.mode)
                       ELSE labelRoute(origin, destination))
                 ELSE (IF s.name # <<>> THEN s.name ELSE destination),
       origin |-> origin,
       destination |-> destination,
       type |-> IF asRoute THEN "route" ELSE "destination",
       source |-> "ai",
       relevanceScore |->
         calculateRelevanceScore([origin |-> origin, destination |-> destination], query)]

\* jsonData.routes.map(...): the legacy shape
fromLegacyRoute(r) ==
  [isNull |-> FALSE, type |-> "route",
   name |-> IF r.origin # <<>> /\ r.destination # <<>>
            THEN labelRoute(r.origin, r.destination)
            ELSE IF r.destination # <<>> THEN r.destination ELSE r.origin,
   origin |-> r.origin, destination |-> r.destination, mode |-> r.mode]

\* jsonData.destinations.map(...): the legacy shape
fromLegacyDestination(d) ==
  [isNull |-> FALSE, type |-> "destination",
   name |-> IF d.name # <<>> THEN d.name ELSE d.destination,
   origin |-> <<>>,
   destination |-> IF d.destination # <<>> THEN d.destination ELSE d.name,
   mode |-> <<>>]

\* provider: what the provider does on this call.
\*   kind "nokey"   no credential configured
\*   kind "throw"   the call throws an error with `status` (401 auth,
\*                  429 rate limit, 500 server)
\*   kind "badjson" the content is empty or does not parse
\*   kind "json"    the content parses to an object whose array, if any, is
\*                  under `shape` ("suggestions", "routes", "destinations";
\*                  "other" when there is none) and holds `items`
\* A null item makes the mapping throw a TypeError.
\* aiTry is the try block of getAISuggestions.
aiTry(query, provider) ==
  LET raw == provider.items
      anyNull == \E i \in 1..Len(raw) : raw[i].isNull
      suggestions ==
        CASE provider.shape = "suggestions" -> raw
          [] provider.shape = "routes" ->
               Tuple([i \in 1..Len(raw) |-> fromLegacyRoute(raw[i])])
          [] OTHER ->
               Tuple([i \in 1..Len(raw) |-> fromLegacyDestination(raw[i])])
      kept == slice0(suggestions, AI_LIMIT)
  IN  CASE provider.kind = "throw" -> rejected(provider.status)
        [] provider.kind = "badjson" -> resolved(<<>>, TRUE)
        [] provider.shape = "other" -> resolved(<<>>, TRUE)
        [] provider.shape \in {"routes", "destinations"} /\ anyNull -> rejected(0)
        [] \E i \in 1..Len(kept) : kept[i].isNull -> rejected(0)
        [] OTHER ->
             resolved(Tuple([i \in 1..Len(kept) |-> aiItem(kept[i], i - 1, query)]),
                      TRUE)

\* a catch block that lets the error through
aiCatchRethrows(outcome) == outcome

\* a catch block that answers an error with the mock suggestions
aiCatchFallback(outcome) ==
  IF outcome.threw THEN resolved(aiFallback(<<"x">>), TRUE) ELSE outcome

\* catch (error: any) { console.error(...); return []; }
aiCatch(outcome) == IF outcome.threw THEN resolved(<<>>, TRUE) ELSE outcome

getAISuggestions(query, provider) ==
  IF provider.kind = "nokey" THEN resolved(aiFallback(query), FALSE)
  ELSE aiCatch(aiTry(query, provider))

----------------------------------------------------------------------------
(* Rate limiter *)

RATE_LIMIT_WINDOW == 60000

RATE_LIMIT_MAX_REQUESTS == 10

\* getClientIP: `forwarded` is the x-forwarded-for header split at its
\* commas (<<>> when the header is absent), `realIP` the x-real-ip header
\* ("" when absent)
getClientIP(headers) ==
  LET first == IF headers.forwarded = <<>> THEN "" ELSE headers.forwarded[1]
  IN  IF first # "" THEN first
      ELSE IF headers.realIP # "" THEN headers.realIP
      ELSE "unknown"

\* The rate-limit Map is a function whose domain is the set of keys present.

\* a denied check that counts the request all the same
limitDeniedCounts(map, ip) == [map EXCEPT ![ip].count = @ + 1]

\* the Map after a denied check: nothing is written
limitDenied(map, ip) == map

\* the Map after an admitted request inside the window: record.count++
limitCount(map, ip) == [map EXCEPT ![ip].count = @ + 1]

\* a new record that replaces the whole Map
limitFreshAlone(map, ip, t) ==
  (ip :> [count |-> 1, resetTime |-> t + RATE_LIMIT_WINDOW])

\* the Map after a first request or a request after the window: a new record
limitFresh(map, ip, t) ==
  (ip :> [count |-> 1, resetTime |-> t + RATE_LIMIT_WINDOW]) @@ map

\* checkRateLimit with the quota test off by one
checkRateLimitOffByOne(map, ip, t, max) ==
  IF ip \notin DOMAIN map \/ t > map[ip].resetTime
  THEN [ok |-> TRUE, map |-> limitFresh(map, ip, t)]
  ELSE IF map[ip].count > max
       THEN [ok |-> FALSE, map |-> limitDenied(map, ip)]
       ELSE [ok |-> TRUE, map |-> limitCount(map, ip)]

\* checkRateLimit(ip) at Date.now() = t with quota `max`: the value returned
\* and the Map it leaves
checkRateLimit(map, ip, t, max) ==
  IF ip \notin DOMAIN map \/ t > map[ip].resetTime
  THEN [ok |-> TRUE, map |-> limitFresh(map, ip, t)]
  ELSE IF map[ip].count >= max
       THEN [ok |-> FALSE, map |-> limitDenied(map, ip)]
       ELSE [ok |-> TRUE, map |-> limitCount(map, ip)]

----------------------------------------------------------------------------
(* The suggestion handler *)

\* the comparator with the scores subtracted the wrong way round
rankCompareAscending(a, b) ==
  IF a.relevanceScore # b.relevanceScore
  THEN a.relevanceScore - b.relevanceScore
  ELSE IF sourcePriority(a.source) # sourcePriority(b.source)
       THEN sourcePriority(b.source) - sourcePriority(a.source)
       ELSE 0

\* the comparator of the handler's sort
rankCompare(a, b) ==
  IF a.relevanceScore # b.relevanceScore
  THEN b.relevanceScore - a.relevanceScore
  ELSE IF sourcePriority(a.source) # sourcePriority(b.source)
       THEN sourcePriority(b.source) - sourcePriority(a.source)
       ELSE 0

\* the response shape of the admitted path: the type is kept when the
\* source gave one, else inferred
formatSuggestion(sug) ==
  LET isRoute == sug.origin # <<>> /\ sug.destination # <<>>
                 /\ sug.origin # sug.destination
  IN  [id |-> sug.id, label |-> sug.label,
       origin |-> sug.origin, destination |-> sug.destination,
       type |-> IF sug.type # "none" THEN sug.type
                ELSE IF isRoute THEN "route" ELSE "destination"]

\* the response shape of the rate-limited path
formatLimited(sug) ==
  [id |-> sug.id, label |-> sug.label,
   origin |-> sug.origin, destination |-> sug.destination,
   type |-> IF sug.type # "none" THEN sug.type ELSE "destination"]

\* the gate of the concurrent phase opened at one character
shouldFetchAIFromOne(q) == Len(q) >= 1

\* const shouldFetchAI = q.length >= 2
shouldFetchAI(q) == Len(q) >= 2

\* a catch block of the handler that answers every error with 200
handlerCatchAlways200(status) == 200

\* the catch block of GET: the status of the response to an error that
\* reached the handler
handlerCatch(status) == IF status \in {429, 401} THEN 503 ELSE 200

\* the winners in response order: deduplicate, then sort
rankSuggestions(allSuggestions) ==
  LET winners == deduplicateSuggestions(allSuggestions)
      cmp == [a \in 1..Len(winners), b \in 1..Len(winners) |->
                rankCompare(winners[a], winners[b])]
  IN  stableSort(winners, cmp)

----------------------------------------------------------------------------
(* State *)

VARIABLES
  now,                \* Date.now(), in ms
  rateLimitMap,       \* the Map of the suggestion endpoint
  searchRateLimitMap, \* the Map of the search endpoint
  trips,              \* the rows of the trip store, in creation order
  lastReq,            \* the last request handled: its client key, its
                      \* trimmed query, the limiter's answer ("none" when
                      \* it was not consulted), the key's record before
                      \* the request (<<>> when there was none) and, when
                      \* the two concurrent sources were invoked, what the
                      \* provider and the trip store did
  response,           \* the last response sent
  ranked,             \* the list the last response was formatted from
  called,             \* which of the two concurrent sources the last request invoked
  fnIn,               \* the argument of the pure function under check
  fnOut               \* its result

vars == <<now, rateLimitMap, searchRateLimitMap, trips, lastReq, response,
          ranked, called, fnIn, fnOut>>

\* Bounds of the model
MaxWindows == 1

MaxOffset == 1

\* the instants at which something happens: the start of a window, its last
\* millisecond (its reset time), and the milliseconds right after them
Instants ==
  { k * RATE_LIMIT_WINDOW + e : k \in 0..MaxWindows, e \in 0..MaxOffset }

MaxTrips == 2

Str_an == <<"a","n">>

Str_n == <<"n">>

Str_bo == <<"b","o">>

Str_NewYorkSp == <<"N","e","w"," ","Y","o","r","k"," ">>

\* a query no gazetteer name contains
Str_zq == <<"z","q">>

Str_Boise == <<"B","o","i","s","e">>

Str_train == <<"t","r","a","i","n">>

\* the values of the q parameter
Queries == { <<>>, <<" ">>, Str_n, Str_an, Str_bo, Str_NewYorkSp, Str_zq }

\* the request headers the client key is derived from: none, or a
\* forwarded-for list and a real-IP address
NoHeaders == [forwarded |-> <<>>, realIP |-> ""]

HeaderSets ==
  { NoHeaders,
    [forwarded |-> <<"10.0.0.1", "10.0.0.2">>, realIP |-> "10.0.0.9"] }

\* the (origin, destination) pairs of the trips created
TripInputs ==
  { [origin |-> Boston, destination |-> NewYork],
    [origin |-> Str_Boise, destination |-> Boston] }

NoItem ==
  [isNull |-> FALSE, type |-> "", name |-> <<>>, origin |-> <<>>,
   destination |-> <<>>, mode |-> <<>>]

\* no provider call
NoProvider == [kind |-> "none", status |-> 0, shape |-> "other", items |-> <<>>]

\* the provider call throws an error with this status
Throws(status) == [NoProvider EXCEPT !.kind = "throw", !.status = status]

\* what the provider may answer: no key; a rate-limit error; a routes array
\* whose item is null; a suggestions array with a destination, a route with
\* a mode, an untyped pair, a route from a place to itself, an empty object
\* and a destination of the gazetteer.  (SpecAdapter has the other answers.)
Providers ==
  { [NoProvider EXCEPT !.kind = "nokey"],
    Throws(429),
    [NoProvider EXCEPT !.kind = "json", !.shape = "suggestions", !.items =
       << [NoItem EXCEPT !.type = "destination", !.name = Str_Boise,
                         !.destination = Str_Boise],
          [NoItem EXCEPT !.type = "route", !.origin = Boston,
                         !.destination = NewYork, !.mode = Str_train],
          [NoItem EXCEPT !.origin = toLowerCase(Boston),
                         !.destination = NewYork \o <<" ">>],
          [NoItem EXCEPT !.type = "route", !.origin = Boston,
                         !.destination = Boston],
          NoItem,
          [NoItem EXCEPT !.type = "destination", !.name = Boston,
                         !.destination = Boston] >>],
    [NoProvider EXCEPT !.kind = "json", !.shape = "routes", !.items =
       << [NoItem EXCEPT !.isNull = TRUE] >>] }

\* the contents the trip store can have: the sequences of at most MaxTrips
\* created trips, ids in creation order
Stores ==
  UNION { { [i \in 1..n |-> [id |-> i, origin |-> f[i].origin,
                             destination |-> f[i].destination]] :
            f \in [1..n -> TripInputs] } : n \in 0..MaxTrips }

\* the trimmed queries the handler works on
TrimmedQueries == { trim(rawq) : rawq \in Queries }

\* getStaticSuggestions on the queries of the model, evaluated once
staticOf == [q \in TrimmedQueries |-> getStaticSuggestions(q)]

\* The admitted path of the handler from the static suggestions to the
\* sorted list: the two concurrent sources when the query has 2 characters
\* or more, the merge, the deduplication and the sort.  Promise.all rejects
\* with the error of whichever source rejects first: `errors` holds the
\* statuses it can reject with, and is empty when both sources resolve.
aggregate(q, store, dbFails, provider) ==
  LET db == IF shouldFetchAI(q) THEN getDatabaseSuggestions(q, store, dbFails)
            ELSE resolved(<<>>, FALSE)
      ai == IF shouldFetchAI(q) THEN getAISuggestions(q, provider)
            ELSE resolved(<<>>, FALSE)
  IN  [errors |-> {o.status : o \in {o \in {db, ai} : o.threw}},
       sorted |-> IF db.threw \/ ai.threw THEN <<>>
                  ELSE rankSuggestions(staticOf[q] \o db.value \o ai.value)]

\* aggregate on the inputs of the model, evaluated once
aggregateOf ==
  [q \in TrimmedQueries, store \in Stores, dbFails \in BOOLEAN,
   provider \in Providers |-> aggregate(q, store, dbFails, provider)]

NoRequest ==
  [ip |-> "", q |-> <<>>, admitted |-> "none", before |-> <<>>,
   provider |-> NoProvider, dbFails |-> FALSE]

NoResponse == [status |-> 0, suggestions |-> <<>>, rateLimited |-> FALSE]

NoCalls == [db |-> FALSE, ai |-> FALSE]

Init ==
  /\ now = 0
  /\ rateLimitMap = << >>
  /\ searchRateLimitMap = << >>
  /\ trips = << >>
  /\ lastReq = NoRequest
  /\ response = NoResponse
  /\ ranked = << >>
  /\ called = NoCalls
  /\ fnIn = << >>
  /\ fnOut = << >>

----------------------------------------------------------------------------
(* Operations *)

\* time passes
Tick ==
  /\ \E t \in Instants :
       /\ t > now
       /\ now' = t
  /\ UNCHANGED <<rateLimitMap, searchRateLimitMap, trips, lastReq, response,
                 ranked, called, fnIn, fnOut>>

\* POST /api/trips: a row is added to the trip store
CreateTrip ==
  /\ Len(trips) < MaxTrips
  /\ \E t \in TripInputs :
       trips' = Append(trips, [id |-> Len(trips) + 1, origin |-> t.origin,
                               destination |-> t.destination])
  /\ UNCHANGED <<now, rateLimitMap, searchRateLimitMap, lastReq, response,
                 ranked, called, fnIn, fnOut>>

\* GET of the suggestion endpoint, whole: the early return on an empty
\* query, the rate-limited return, and the aggregation
SuggestGET(headers, rawq, provider, dbFails) ==
  LET q == trim(rawq)
      ip == getClientIP(headers)
      rl == checkRateLimit(rateLimitMap, ip, now, RATE_LIMIT_MAX_REQUESTS)
      before == IF ip \in DOMAIN rateLimitMap THEN <<rateLimitMap[ip]>> ELSE <<>>
      req == [ip |-> ip, q |-> q, admitted |-> "none", before |-> before,
              provider |-> NoProvider, dbFails |-> FALSE]
      staticSuggestions == staticOf[q]
      all == aggregateOf[q, trips, dbFails, provider]
  IN  /\ UNCHANGED <<now, searchRateLimitMap, trips, fnIn, fnOut>>
      /\ IF q = <<>>
         THEN /\ response' = [status |-> 200, suggestions |-> <<>>, rateLimited |-> FALSE]
              /\ ranked' = <<>>
              /\ called' = NoCalls
              /\ lastReq' = req
              /\ UNCHANGED rateLimitMap
         ELSE IF shouldFetchAI(q) /\ ~rl.ok
         THEN /\ response' =
                   [status |-> 200,
                    suggestions |-> Tuple([i \in 1..Len(staticSuggestions) |->
                                       formatLimited(staticSuggestions[i])]),
                    rateLimited |-> TRUE]
              /\ ranked' = staticSuggestions
              /\ called' = NoCalls
              /\ lastReq' = [req EXCEPT !.admitted = "no"]
              /\ rateLimitMap' = rl.map
         ELSE /\ IF all.errors = {}
                 THEN response' =
                        [status |-> 200,
                         suggestions |-> Tuple([i \in 1..Len(all.sorted) |->
                                            formatSuggestion(all.sorted[i])]),
                         rateLimited |-> FALSE]
                 ELSE \E status \in all.errors :
                        response' = [status |-> handlerCatch(status),
                                     suggestions |-> <<>>, rateLimited |-> FALSE]
              /\ ranked' = all.sorted
              /\ called' = [db |-> shouldFetchAI(q), ai |-> shouldFetchAI(q)]
              /\ lastReq' = IF shouldFetchAI(q)
                            THEN [req EXCEPT !.admitted = "yes",
                                             !.provider = provider,
                                             !.dbFails = dbFails]
                            ELSE req
              /\ rateLimitMap' = IF shouldFetchAI(q) THEN rl.map ELSE rateLimitMap

\* requests of one client, with every query, provider answer and store outcome
Suggest ==
  \E rawq \in Queries, provider \in Providers, dbFails \in BOOLEAN :
    SuggestGET(NoHeaders, rawq, provider, dbFails)

\* The aggregation: one client inside one window, the trip store grows, every
\* query, provider answer and store outcome.  (Time passes in SpecLimiter.)
Next == CreateTrip \/ Suggest

Spec == Init /\ [][Next]_vars

\* the provider answers every call with a rate-limit error
ProviderDown == Throws(429)

\* requests of several clients whose two concurrent sources both fail
SuggestLimited ==
  \E headers \in HeaderSets, rawq \in {<<>>, Str_n, Str_an} :
    SuggestGET(headers, rawq, ProviderDown, TRUE)

\* The rate limiter: several clients, time passes.
NextLimiter == Tick \/ SuggestLimited

SpecLimiter == Init /\ [][NextLimiter]_vars

----------------------------------------------------------------------------
(* The deduplicator alone, on every list of candidates up to a length *)

MaxLen == 3

Str_a == <<"a">>

Str_b == <<"b">>

Str_ASp == <<"A", " ">>

\* the places of the candidates: two spellings of one place, and a route
DedupPlaces ==
  { [origin |-> <<>>, destination |-> Str_a],
    [origin |-> <<>>, destination |-> Str_ASp],
    [origin |-> Str_a, destination |-> Str_b] }

\* a candidate: a place, a source and a score
DedupCandidates ==
  [place : DedupPlaces, source : {"static", "database", "ai"}, score : {20, 60}]

\* the list of the candidates f[1], ..., f[n]: the id is the position
DedupList(f) ==
  Tuple([i \in DOMAIN f |->
     [id |-> <<"in", i>>, label |-> f[i].place.destination,
      origin |-> f[i].place.origin, destination |-> f[i].place.destination,
      type |-> "none", source |-> f[i].source, relevanceScore |-> f[i].score]])

InitDedup ==
  /\ now = 0
  /\ rateLimitMap = << >>
  /\ searchRateLimitMap = << >>
  /\ trips = << >>
  /\ lastReq = NoRequest
  /\ response = NoResponse
  /\ ranked = << >>
  /\ called = NoCalls
  /\ \E n \in 0..MaxLen : \E f \in [1..n -> DedupCandidates] :
       fnIn = DedupList(f)
  /\ fnOut = [done |-> FALSE, once |-> <<>>, twice |-> <<>>, again |-> <<>>]

\* deduplicateSuggestions applied to the list, to the list concatenated with
\* itself, and to its own result
ApplyDedup ==
  /\ ~fnOut.done
  /\ fnOut' = [done |-> TRUE,
               once |-> deduplicateSuggestions(fnIn),
               twice |-> deduplicateSuggestions(fnIn \o fnIn),
               again |-> deduplicateSuggestions(deduplicateSuggestions(fnIn))]
  /\ UNCHANGED <<now, rateLimitMap, searchRateLimitMap, trips, lastReq,
                 response, ranked, called, fnIn>>

SpecDedup == InitDedup /\ [][ApplyDedup]_vars

----------------------------------------------------------------------------
(* The scorer alone, on every query and place up to a length *)

MaxQueryLen == 3

MaxPlaceLen == 2

ScoreChars == {"a", "A", "b", " "}

\* the strings of at most n characters
Strings(n) == UNION { [1..k -> ScoreChars] : k \in 0..n }

\* the other place of the candidate: absent, or a place the query may match
OtherPlaces == { <<>>, Str_b, Str_ASp }

InitScore ==
  /\ now = 0
  /\ rateLimitMap = << >>
  /\ searchRateLimitMap = << >>
  /\ trips = << >>
  /\ lastReq = NoRequest
  /\ response = NoResponse
  /\ ranked = << >>
  /\ called = NoCalls
  /\ \E query \in Strings(MaxQueryLen), place \in Strings(MaxPlaceLen),
        other \in OtherPlaces, asOrigin \in BOOLEAN :
       fnIn = [query |-> query,
               origin |-> IF asOrigin THEN place ELSE other,
               destination |-> IF asOrigin THEN other ELSE place]
  /\ fnOut = [done |-> FALSE, score |-> 0]

ApplyScore ==
  /\ ~fnOut.done
  /\ fnOut' = [done |-> TRUE,
               score |-> calculateRelevanceScore(
                           [origin |-> fnIn.origin, destination |-> fnIn.destination],
                           fnIn.query)]
  /\ UNCHANGED <<now, rateLimitMap, searchRateLimitMap, trips, lastReq,
                 response, ranked, called, fnIn>>

SpecScore == InitScore /\ [][ApplyScore]_vars

----------------------------------------------------------------------------
(* The gazetteer matcher alone, on queries and limits *)

MaxLimit == 10

Str_kansas == <<"k","a","n","s","a","s">>

\* the queries put to the gazetteer: empty, blank, one character, a
\* substring of many names, a prefix of several, a name in three tiers
\* (Kansas, Kansas City, Arkansas) with spaces around it and in upper
\* case, a name that is a state and a city, and one that matches nothing
GazetteerQueries ==
  { <<>>, <<" ">>, Str_n, Str_an, <<"o","r">>, <<"N","e","w">>,
    Str_kansas, <<" ">> \o Str_kansas \o <<" ">>, <<"K","A","N","S","A","S">>,
    Str_NewYorkSp, <<"w","a","s","h","i","n","g","t","o","n">>, Str_zq }

InitGazetteer ==
  /\ now = 0
  /\ rateLimitMap = << >>
  /\ searchRateLimitMap = << >>
  /\ trips = << >>
  /\ lastReq = NoRequest
  /\ response = NoResponse
  /\ ranked = << >>
  /\ called = NoCalls
  /\ fnOut = [done |-> FALSE, value |-> <<>>]
  /\ \E query \in GazetteerQueries, limit \in 0..MaxLimit :
       fnIn = [query |-> query, limit |-> limit]

ApplyGazetteer ==
  /\ ~fnOut.done
  /\ fnOut' = [done |-> TRUE, value |-> filterUSLocations(fnIn.query, fnIn.limit)]
  /\ UNCHANGED <<now, rateLimitMap, searchRateLimitMap, trips, lastReq,
                 response, ranked, called, fnIn>>

SpecGazetteer == InitGazetteer /\ [][ApplyGazetteer]_vars

----------------------------------------------------------------------------
(* The history matcher alone, on trip stores up to a number of rows *)

MaxRows == 24

MaxPairs == 12

Str_X == <<"X">>

\* the k-th pair of places of the stores below, in one of two spellings that
\* differ in case only; every one contains "bo"
HistoryPair(k, upper) ==
  [origin |-> (IF upper THEN <<"B", "O">> ELSE <<"b", "o">>) \o <<LowerChars[k]>>,
   destination |-> Str_X]

\* a pair that contains "zq" and not "bo"
OtherPair == [origin |-> <<"Z", "q">>, destination |-> Str_X]

\* A trip store of n rows over d pairs: the oldest row has a pair of its
\* own (the last of the alphabet), every eighth row is an OtherPair, the
\* others go round the d pairs, odd rows in upper case.
HistoryStore(n, d) ==
  Tuple([i \in 1..n |->
     LET pair == IF i = 1 THEN HistoryPair(Len(LowerChars), FALSE)
                 ELSE IF i % 8 = 0 THEN OtherPair
                 ELSE HistoryPair(((i - 2) % d) + 1, i % 2 = 1)
     IN  [id |-> i, origin |-> pair.origin, destination |-> pair.destination]])

\* the queries put to the matcher: too short, matching, matching after the
\* trim, matching the other rows only
HistoryQueries == { <<>>, Str_n, Str_bo, <<" ">> \o Str_bo \o <<" ">>, Str_zq }

InitHistory ==
  /\ now = 0
  /\ rateLimitMap = << >>
  /\ searchRateLimitMap = << >>
  /\ trips = << >>
  /\ lastReq = NoRequest
  /\ response = NoResponse
  /\ ranked = << >>
  /\ called = NoCalls
  /\ fnOut = [done |-> FALSE, db |-> resolved(<<>>, FALSE),
              all |-> [errors |-> {}, sorted |-> <<>>]]
  /\ \E query \in HistoryQueries, n \in 0..MaxRows, d \in 1..MaxPairs,
        dbFails \in BOOLEAN, provider \in {[NoProvider EXCEPT !.kind = "nokey"],
                                           ProviderDown} :
       fnIn = [query |-> query, store |-> HistoryStore(n, d),
               dbFails |-> dbFails, provider |-> provider]

\* the matcher on its own, and the handler's aggregation with it
ApplyHistory ==
  /\ ~fnOut.done
  /\ fnOut' = [done |-> TRUE,
               db |-> getDatabaseSuggestions(fnIn.query, fnIn.store, fnIn.dbFails),
               all |-> aggregate(trim(fnIn.query), fnIn.store, fnIn.dbFails,
                                 fnIn.provider)]
  /\ UNCHANGED <<now, rateLimitMap, searchRateLimitMap, trips, lastReq,
                 response, ranked, called, fnIn>>

SpecHistory == InitHistory /\ [][ApplyHistory]_vars

----------------------------------------------------------------------------
(* The generative adapter alone, on every provider answer up to a length *)

\* getAISuggestions of src/app/api/plan/route.ts, as far as it settles: the
\* provider call is in no try block, so its error rejects the promise with
\* the error's status.  The list it resolves with otherwise
\* (parseSuggestions of the content text) is not modelled.
planGetAISuggestions(provider) ==
  [threw |-> provider.kind = "throw",
   status |-> IF provider.kind = "throw" THEN provider.status ELSE 0]

MaxItems == 2

\* the items of the provider's array: null, an object without fields (a
\* number or a string reads the same: every field undefined), a
\* destination, a route
AdapterItems ==
  { [NoItem EXCEPT !.isNull = TRUE],
    NoItem,
    [NoItem EXCEPT !.type = "destination", !.name = Str_Boise,
                   !.destination = Str_Boise],
    [NoItem EXCEPT !.origin = Boston, !.destination = NewYork,
                   !.mode = Str_train] }

\* nine items, the ninth null: more than suggestions.slice(0, 8) reads
LongAnswer ==
  [i \in 1..9 |-> IF i = 9 THEN [NoItem EXCEPT !.isNull = TRUE]
                  ELSE [NoItem EXCEPT !.name = <<"p">>, !.destination = <<"p">>]] \o <<>>

InitAdapter ==
  /\ now = 0
  /\ rateLimitMap = << >>
  /\ searchRateLimitMap = << >>
  /\ trips = << >>
  /\ lastReq = NoRequest
  /\ response = NoResponse
  /\ ranked = << >>
  /\ called = NoCalls
  /\ fnOut = [done |-> FALSE, settled |-> resolved(<<>>, FALSE),
              plan |-> [threw |-> FALSE, status |-> 0]]
  /\ \E query \in {Str_an, Str_bo} :
       \/ \E kind \in {"nokey", "badjson"} :
            fnIn = [query |-> query, provider |-> [NoProvider EXCEPT !.kind = kind]]
       \/ \E status \in {401, 429, 500} :
            fnIn = [query |-> query, provider |-> Throws(status)]
       \/ \E shape \in {"suggestions", "routes", "destinations", "other"} :
            \/ \E n \in 0..MaxItems : \E f \in [1..n -> AdapterItems] :
                 fnIn = [query |-> query,
                         provider |-> [NoProvider EXCEPT !.kind = "json",
                                         !.shape = shape, !.items = f \o <<>>]]
            \/ fnIn = [query |-> query,
                       provider |-> [NoProvider EXCEPT !.kind = "json",
                                       !.shape = shape, !.items = LongAnswer]]

ApplyAdapter ==
  /\ ~fnOut.done
  /\ fnOut' = [done |-> TRUE,
               settled |-> getAISuggestions(fnIn.query, fnIn.provider),
               plan |-> planGetAISuggestions(fnIn.provider)]
  /\ UNCHANGED <<now, rateLimitMap, searchRateLimitMap, trips, lastReq,
                 response, ranked, called, fnIn>>

SpecAdapter == InitAdapter /\ [][ApplyAdapter]_vars

----------------------------------------------------------------------------
(* The search endpoint: its own Map and quota, the gazetteer alone *)

SEARCH_RATE_LIMIT_MAX_REQUESTS == 15

\* filterUSLocations(q, 5)
SEARCH_STATIC_LIMIT == 5

\* unique.slice(0, 10)
SEARCH_RESPONSE_LIMIT == 10

\* name.toLowerCase().replace(/\s+/g, "-")
dashed(name) ==
  LET l == toLowerCase(name)
      Starts(i) == IsSpace(l[i]) /\ (i = 1 \/ ~IsSpace(l[i - 1]))
      Kept(i) == ~IsSpace(l[i]) \/ Starts(i)
      idx == {i \in 1..Len(l) : Kept(i)}
      pos == Tuple([k \in 1..Cardinality(idx) |->
                      CHOOSE i \in idx : Cardinality({j \in idx : j < i}) = k - 1])
  IN  Tuple([k \in 1..Len(pos) |-> IF IsSpace(l[pos[k]]) THEN "-" ELSE l[pos[k]]])

\* the list the search handler returns when the request is admitted: the
\* gazetteer matches as destinations, one per lower-cased label, at most 10
\* (the sort that puts static ids first leaves an all-static list as it is)
searchSuggestions(q) ==
  LET locations == filterUSLocations(q, SEARCH_STATIC_LIMIT)
      suggestions == Tuple([i \in 1..Len(locations) |->
                       [id |-> <<"static">> \o dashed(locations[i].name),
                        label |-> locations[i].name,
                        origin |-> <<>>,
                        destination |-> locations[i].name,
                        type |-> "destination"]])
      first == {i \in 1..Len(suggestions) :
                  \A j \in 1..(i - 1) :
                    toLowerCase(suggestions[j].label) # toLowerCase(suggestions[i].label)}
      Keep(sug) == \E i \in first : suggestions[i] = sug
  IN  slice0(SelectSeq(suggestions, Keep), SEARCH_RESPONSE_LIMIT)

\* searchSuggestions on the queries of the model, evaluated once
searchOf == [q \in TrimmedQueries |-> searchSuggestions(q)]

\* GET of the search endpoint, whole
SearchGET(headers, rawq) ==
  LET q == trim(rawq)
      ip == getClientIP(headers)
      rl == checkRateLimit(searchRateLimitMap, ip, now, SEARCH_RATE_LIMIT_MAX_REQUESTS)
      before == IF ip \in DOMAIN searchRateLimitMap
                THEN <<searchRateLimitMap[ip]>> ELSE <<>>
  IN  /\ UNCHANGED <<now, rateLimitMap, trips, fnIn, fnOut>>
      /\ called' = NoCalls
      /\ ranked' = <<>>
      /\ IF Len(q) < 2
         THEN /\ response' = [status |-> 200, suggestions |-> <<>>, rateLimited |-> FALSE]
              /\ lastReq' = [NoRequest EXCEPT !.ip = ip, !.q = q, !.before = before]
              /\ UNCHANGED searchRateLimitMap
         ELSE IF ~rl.ok
         THEN /\ response' = [status |-> 429, suggestions |-> <<>>, rateLimited |-> FALSE]
              /\ lastReq' = [NoRequest EXCEPT !.ip = ip, !.q = q, !.before = before,
                                              !.admitted = "no"]
              /\ searchRateLimitMap' = rl.map
         ELSE /\ response' = [status |-> 200, suggestions |-> searchOf[q],
                              rateLimited |-> FALSE]
              /\ lastReq' = [NoRequest EXCEPT !.ip = ip, !.q = q, !.before = before,
                                              !.admitted = "yes"]
              /\ searchRateLimitMap' = rl.map

Search ==
  \E headers \in HeaderSets, rawq \in {<<>>, Str_n, Str_an, Str_NewYorkSp} :
    SearchGET(headers, rawq)

\* The search endpoint: several clients, time passes.
NextSearch == Tick \/ Search

SpecSearch == Init /\ [][NextSearch]_vars

----------------------------------------------------------------------------
(* Claims on the rate limiter, under SpecLimiter *)

\* a step that handles a request: the clock and the trip store stand still
RequestStep == now' = now /\ trips' = trips

\* C1: once RATE_LIMIT_MAX_REQUESTS requests of a key were admitted in its
\* window (its counter is at the quota and now <= resetTime), a request of
\* that key that consults the limiter is denied; the first request of the
\* key after the window (now > resetTime) is admitted and leaves the record
\* {count: 1, resetTime: now + 60 s}.
C1_RateLimitBoundary ==
  [][(RequestStep /\ lastReq'.admitted # "none") =>
       LET ip == lastReq'.ip
       IN  IF ip \notin DOMAIN rateLimitMap THEN lastReq'.admitted = "yes"
           ELSE /\ (/\ now <= rateLimitMap[ip].resetTime
                    /\ rateLimitMap[ip].count >= RATE_LIMIT_MAX_REQUESTS)
                     => lastReq'.admitted = "no"
                /\ now > rateLimitMap[ip].resetTime
                     => /\ lastReq'.admitted = "yes"
                        /\ rateLimitMap'[ip] =
                             [count |-> 1, resetTime |-> now + 60000]]_vars

\* C1 witness: a key whose window was used up to the quota has its first
\* request after the window admitted, with a fresh record
C1_Witness ==
  /\ lastReq.admitted = "yes"
  /\ lastReq.before # <<>>
  /\ lastReq.before[1].count = RATE_LIMIT_MAX_REQUESTS
  /\ now > lastReq.before[1].resetTime
  /\ rateLimitMap[lastReq.ip].count = 1

\* C2: a denied check writes nothing: the whole Map (the key's counter and
\* reset time, and every other key's record) is what it was before.
C2_DeniedLeavesMap ==
  [][(RequestStep /\ lastReq'.admitted = "no") => rateLimitMap' = rateLimitMap]_vars

\* C2 witness: a request was denied at the quota while another key has a
\* record of its own
C2_Witness ==
  /\ lastReq.admitted = "no"
  /\ rateLimitMap[lastReq.ip].count = RATE_LIMIT_MAX_REQUESTS
  /\ lastReq.before = <<rateLimitMap[lastReq.ip]>>
  /\ \E other \in DOMAIN rateLimitMap : other # lastReq.ip

----------------------------------------------------------------------------
(* Claims on a denied request *)

\* the gazetteer matches of a query in the response shape
staticResponse(q) ==
  Tuple([i \in 1..Len(staticOf[q]) |-> formatLimited(staticOf[q][i])])

\* C3: when the limiter denied the request, the response is a success that
\* carries the gazetteer matches of the query, and neither the History
\* Matcher nor the Generative Adapter was invoked.
C3_DeniedFallsBack ==
  lastReq.admitted = "no" =>
    /\ response.status = 200
    /\ response.suggestions = staticResponse(lastReq.q)
    /\ called = NoCalls

----------------------------------------------------------------------------
(* Claims on the responses of the suggestion endpoint, under Spec *)

\* the identity key of a suggestion
keyOf(sug) == normalizeRoute(sug.origin, sug.destination)

\* the trust order of the sources
PriorityOf(source) ==
  CASE source = "static" -> 3 [] source = "database" -> 2 [] source = "ai" -> 1

\* C4: in every response, no two suggestions have the same identity key.
C4_UniqueKeys ==
  \A i, j \in 1..Len(response.suggestions) :
    i # j => keyOf(response.suggestions[i]) # keyOf(response.suggestions[j])

\* C6: the response list is ordered by relevanceScore descending, and two
\* adjacent suggestions of equal score are ordered static, database, ai.
\* `ranked` is the list the response was formatted from, entry by entry.
C6_Ordered ==
  /\ Len(response.suggestions) = Len(ranked)
  /\ \A i \in 1..Len(ranked) : response.suggestions[i].id = ranked[i].id
  /\ \A i \in 1..(Len(ranked) - 1) :
       \/ ranked[i].relevanceScore > ranked[i + 1].relevanceScore
       \/ /\ ranked[i].relevanceScore = ranked[i + 1].relevanceScore
          /\ PriorityOf(ranked[i].source) >= PriorityOf(ranked[i + 1].source)

\* C6 witness: a response in which a database and an ai suggestion of equal
\* score are adjacent, below a suggestion of higher score
C6_Witness ==
  /\ response.status = 200
  /\ \E i \in 2..(Len(ranked) - 1) :
       /\ ranked[i].source = "database"
       /\ ranked[i + 1].source = "ai"
       /\ ranked[i].relevanceScore = ranked[i + 1].relevanceScore
       /\ ranked[i - 1].relevanceScore > ranked[i].relevanceScore

\* C7: every response has at most 10 suggestions.
C7_AtMostTen == Len(response.suggestions) <= 10

\* C8: every candidate the sources built has a relevanceScore in 0..100.
C8_ScoreRange ==
  \A i \in 1..Len(ranked) : ranked[i].relevanceScore \in 0..100

----------------------------------------------------------------------------
(* Claims on the deduplicator, under SpecDedup *)

\* a is above b in the order (source priority, then relevanceScore)
Above(a, b) ==
  \/ PriorityOf(a.source) > PriorityOf(b.source)
  \/ /\ PriorityOf(a.source) = PriorityOf(b.source)
     /\ a.relevanceScore > b.relevanceScore

\* the positions of the list whose candidate has the key of position i
Group(list, i) == {j \in 1..Len(list) : keyOf(list[j]) = keyOf(list[i])}

\* position j holds the first maximal candidate of its group
FirstMaximal(list, j) ==
  /\ \A l \in Group(list, j) : ~Above(list[l], list[j])
  /\ \A l \in Group(list, j) : l < j => Above(list[j], list[l])

\* C5: for every key of the input, the result holds exactly one candidate
\* of that key, and it is the first of the input among those maximal under
\* (source priority, relevanceScore).
C5_KeepsFirstMaximal ==
  fnOut.done =>
    \A i \in 1..Len(fnIn) :
      \E o \in 1..Len(fnOut.once) :
        /\ keyOf(fnOut.once[o]) = keyOf(fnIn[i])
        /\ \A p \in 1..Len(fnOut.once) :
             keyOf(fnOut.once[p]) = keyOf(fnIn[i]) => p = o
        /\ \E j \in Group(fnIn, i) :
             FirstMaximal(fnIn, j) /\ fnOut.once[o] = fnIn[j]

\* C5 witness: an ai candidate with the higher score, then two static
\* candidates of the same key and equal score: the first static candidate
\* is the one kept
C5_Witness ==
  /\ fnOut.done
  /\ Len(fnIn) = 3
  /\ Group(fnIn, 1) = {1, 2, 3}
  /\ fnIn[1].source = "ai" /\ fnIn[2].source = "static" /\ fnIn[3].source = "static"
  /\ fnIn[1].relevanceScore > fnIn[2].relevanceScore
  /\ fnIn[2].relevanceScore = fnIn[3].relevanceScore
  /\ fnOut.once = <<fnIn[2]>>

\* C9: deduplicating the list concatenated with itself gives the result of
\* deduplicating the list (same winners, same order), and deduplicating
\* that result gives it back.
C9_Idempotent ==
  fnOut.done => fnOut.twice = fnOut.once /\ fnOut.again = fnOut.once

\* C9 witness: a list of three candidates in which the key of the first
\* comes back after another key, and the later candidate wins
C9_Witness ==
  /\ fnOut.done
  /\ Len(fnIn) = 3
  /\ Group(fnIn, 1) = {1, 3}
  /\ Above(fnIn[3], fnIn[1])
  /\ fnOut.once = <<fnIn[3], fnIn[2]>>

----------------------------------------------------------------------------
(* Claims on the scorer, under SpecScore *)

\* the query as the scorer normalizes it, and the places lower-cased
NormQuery == trim(toLowerCase(fnIn.query))

LowerPlaces == {toLowerCase(fnIn.origin), toLowerCase(fnIn.destination)}

\* s holds w at position i
OccursAt(s, w, i) ==
  /\ i + Len(w) - 1 <= Len(s)
  /\ \A k \in 1..Len(w) : s[i + k - 1] = w[k]

\* a word of s starts at position i
WordStart(s, i) == s[i] # " " /\ (i = 1 \/ s[i - 1] = " ")

\* the words of s: its maximal runs of characters other than the space
WordsOf(s) ==
  { SubSeq(s, p[1], p[2]) :
      p \in { p \in (1..Len(s)) \X (1..Len(s)) :
                /\ p[1] <= p[2]
                /\ WordStart(s, p[1])
                /\ \A k \in p[1]..p[2] : s[k] # " "
                /\ (p[2] = Len(s) \/ s[p[2] + 1] = " ") } }

TierExact == \E p \in LowerPlaces : p = NormQuery

TierPrefix == \E p \in LowerPlaces : OccursAt(p, NormQuery, 1)

TierSubstring == \E p \in LowerPlaces : \E i \in 1..(Len(p) + 1) : OccursAt(p, NormQuery, i)

TierWord ==
  \E qw \in WordsOf(NormQuery), p \in LowerPlaces :
    \E w \in WordsOf(p) : OccursAt(w, qw, 1)

\* C10: the score is that of the first tier that matches, top-down: 100 when
\* the normalized query equals the lower-cased origin or destination, else
\* 80 when it is a prefix of one, else 60 when one contains it, else 40 when
\* a word of the query is a prefix of a word of one, else 20.
C10_FirstTier ==
  fnOut.done =>
    fnOut.score = IF TierExact THEN 100
                  ELSE IF TierPrefix THEN 80
                  ELSE IF TierSubstring THEN 60
                  ELSE IF TierWord THEN 40 ELSE 20

\* C10 witness: a query of two words, not contained in the place, one word of
\* which starts a word of the place: the score is 40
C10_Witness ==
  /\ fnOut.done
  /\ fnOut.score = 40
  /\ Cardinality(WordsOf(NormQuery)) = 2
  /\ ~TierSubstring

----------------------------------------------------------------------------
(* Claims on classification, degradation and gating, under Spec *)

\* the place a response field names: lower-cased and trimmed
placeOf(name) == trim(toLowerCase(name))

\* C11: every suggestion of a response whose type is route has an origin and
\* a destination, and they name different places (compared lower-cased and
\* trimmed); so a suggestion from a place to itself is never a route.
C11_RouteHasTwoPlaces ==
  \A i \in 1..Len(response.suggestions) :
    LET sug == response.suggestions[i]
    IN  sug.type = "route" =>
          /\ sug.origin # <<>>
          /\ sug.destination # <<>>
          /\ placeOf(sug.origin) # placeOf(sug.destination)

\* the provider's call failed, or its content does not parse, has no array
\* of a known name, or has a null where an item is read (every item of a
\* legacy array, the first 8 of a suggestions array)
ProviderFailed(provider) ==
  \/ provider.kind \in {"throw", "badjson"}
  \/ /\ provider.kind = "json"
     /\ \/ provider.shape = "other"
        \/ \E i \in 1..Len(provider.items) :
             /\ provider.items[i].isNull
             /\ provider.shape = "suggestions" => i <= 8

\* the response list built from the gazetteer and the history candidates
\* alone, for the queries and stores of the model
withoutAI ==
  [q \in TrimmedQueries, store \in Stores, dbFails \in BOOLEAN |->
     LET sorted == rankSuggestions(
                     staticOf[q] \o getDatabaseSuggestions(q, store, dbFails).value)
     IN  Tuple([i \in 1..Len(sorted) |-> formatSuggestion(sorted[i])])]

C13_AlwaysSuccess ==
  response # NoResponse =>
    /\ response.status = 200
    /\ (/\ lastReq.admitted = "yes"
        /\ lastReq.dbFails
        /\ ProviderFailed(lastReq.provider)
        /\ staticOf[lastReq.q] = <<>>) => response.suggestions = <<>>

\* C13 witness: an admitted request whose query matches no gazetteer name,
\* with the trip store failing and the provider answering 429, got 200 and
\* an empty array
C13_Witness ==
  /\ lastReq.admitted = "yes"
  /\ lastReq.q = Str_zq
  /\ lastReq.dbFails
  /\ lastReq.provider = Throws(429)
  /\ response = [status |-> 200, suggestions |-> <<>>, rateLimited |-> FALSE]

\* C14: a request with an empty query is answered 200 with an empty list; a
\* request with a query of 1 character is answered with the gazetteer
\* candidates alone; neither invokes the history matcher or the provider nor
\* changes the rate-limit Map.  The two concurrent sources are invoked only
\* for a query of 2 characters or more that the rate limiter admitted.
C14_LengthGate ==
  [][RequestStep =>
       /\ Len(lastReq'.q) = 0 =>
            /\ response' = [status |-> 200, suggestions |-> <<>>, rateLimited |-> FALSE]
            /\ called' = NoCalls
            /\ rateLimitMap' = rateLimitMap
       /\ Len(lastReq'.q) = 1 =>
            /\ response'.status = 200
            /\ response'.suggestions = withoutAI[lastReq'.q, <<>>, TRUE]
            /\ \A i \in 1..Len(response'.suggestions) :
                 response'.suggestions[i].id[1] = "static"
            /\ called' = NoCalls
            /\ rateLimitMap' = rateLimitMap
       /\ (called'.db \/ called'.ai) =>
            /\ Len(lastReq'.q) >= 2
            /\ lastReq'.admitted = "yes"]_vars

\* C14 witness: a client whose quota is used up asks with a query of 1
\* character: it gets gazetteer matches, no source is invoked and its record
\* is as it was
C14_Witness ==
  /\ Len(lastReq.q) = 1
  /\ lastReq.before # <<>>
  /\ lastReq.before[1].count = RATE_LIMIT_MAX_REQUESTS
  /\ rateLimitMap[lastReq.ip] = lastReq.before[1]
  /\ Len(response.suggestions) > 0
  /\ called = NoCalls

\* C15: for every place the gazetteer matcher returns for the query, the
\* response holds a suggestion with that name as its label that came from
\* the gazetteer, whatever the trip store and the provider returned.
C15_GazetteerKept ==
  response # NoResponse =>
    \A i \in 1..Len(staticOf[lastReq.q]) :
      \E j \in 1..Len(response.suggestions) :
        /\ response.suggestions[j].label = staticOf[lastReq.q][i].label
        /\ response.suggestions[j].id[1] = "static"

\* C15 witness: the provider returned a Boston-to-Boston item for a query
\* that matches the gazetteer's Boston; the response holds the gazetteer's
\* Boston and not the provider's
C15_Witness ==
  /\ lastReq.admitted = "yes"
  /\ lastReq.q = Str_bo
  /\ lastReq.provider.kind = "json"
  /\ lastReq.provider.shape = "suggestions"
  /\ \E j \in 1..Len(response.suggestions) :
       /\ response.suggestions[j].label = Boston
       /\ response.suggestions[j].id[1] = "static"
  /\ \A j \in 1..Len(response.suggestions) :
       response.suggestions[j].id # <<"ai", 3>>

\* C16: every suggestion of every response has a non-empty label.
C16_LabelNonEmpty ==
  \A i \in 1..Len(response.suggestions) : response.suggestions[i].label # <<>>

----------------------------------------------------------------------------
(* Claims on the adapter, under SpecAdapter *)

\* the adapter of the suggestion endpoint resolved, and with an empty list
\* when the provider failed
SuggestAdapterSettles ==
  /\ ~fnOut.settled.threw
  /\ ProviderFailed(fnIn.provider) => fnOut.settled.value = <<>>

\* C17: for every provider outcome getAISuggestions resolves (it never
\* rejects), with an empty list whenever the call or the parse failed; this
\* for the adapter of the suggestion endpoint and for the one of the plan
\* route.
C17_AdapterNeverThrows ==
  fnOut.done => SuggestAdapterSettles /\ ~fnOut.plan.threw

----------------------------------------------------------------------------
(* Claims on the history matcher, under SpecHistory *)

\* C18: the history matcher always resolves; for a query shorter than 2
\* characters it returns an empty list and does not query the trip store;
\* when the trip store query fails it returns an empty list, and the
\* handler's aggregation of the same request has no error and is the
\* deduplicated, sorted gazetteer and provider candidates.
C18_HistoryNeverRaises ==
  fnOut.done =>
    LET q == trim(fnIn.query)
    IN  /\ ~fnOut.db.threw
        /\ Len(q) < 2 => fnOut.db.value = <<>> /\ ~fnOut.db.queried
        /\ fnIn.dbFails => fnOut.db.value = <<>>
        /\ (fnIn.dbFails /\ Len(q) >= 2) =>
             /\ fnOut.all.errors = {}
             /\ fnOut.all.sorted =
                  rankSuggestions(
                    staticOf[q] \o getAISuggestions(q, fnIn.provider).value)

\* C18 witness: the trip store holds matching rows and its query fails; the
\* aggregation still carries gazetteer and provider candidates
C18_Witness ==
  /\ fnOut.done
  /\ fnIn.dbFails
  /\ fnIn.query = Str_bo
  /\ Len(fnIn.store) > 2
  /\ fnOut.db = resolved(<<>>, TRUE)
  /\ \E i \in 1..Len(fnOut.all.sorted) : fnOut.all.sorted[i].source = "static"
  /\ \E i \in 1..Len(fnOut.all.sorted) : fnOut.all.sorted[i].source = "ai"

\* the rows of the store that match the query: origin or destination
\* contains it, case-insensitively
MatchingRows ==
  LET q == toLowerCase(trim(fnIn.query))
  IN  {i \in 1..Len(fnIn.store) :
         \/ includes(toLowerCase(fnIn.store[i].origin), q)
         \/ includes(toLowerCase(fnIn.store[i].destination), q)}

\* the 20 most recently created of them
RecentRows == {i \in MatchingRows : Cardinality({j \in MatchingRows : j > i}) < 20}

\* the origin/destination pair of a row, case-insensitive
PairOf(i) ==
  <<toLowerCase(fnIn.store[i].origin), toLowerCase(fnIn.store[i].destination)>>

\* the row the k-th candidate was built from
RowOf(k) == fnOut.db.value[k].id[2]

\* C19: the history matcher returns at most 10 candidates, each built from
\* one of the 20 most recently created matching rows, no two with the same
\* case-insensitive origin/destination pair; the row of a candidate is the
\* most recently created matching row of its pair, and the candidates come
\* most recently created first.
C19_HistoryRecentDistinct ==
  fnOut.done =>
    LET v == fnOut.db.value
    IN  /\ Len(v) <= 10
        /\ \A k \in 1..Len(v) :
             /\ RowOf(k) \in RecentRows
             /\ v[k].origin = fnIn.store[RowOf(k)].origin
             /\ v[k].destination = fnIn.store[RowOf(k)].destination
             /\ \A i \in MatchingRows : PairOf(i) = PairOf(RowOf(k)) => i <= RowOf(k)
        /\ \A k, l \in 1..Len(v) :
             k < l => /\ PairOf(RowOf(k)) # PairOf(RowOf(l))
                      /\ RowOf(k) > RowOf(l)

\* C19 witness: more than 20 matching rows over more than 10 pairs written
\* in two spellings: 10 candidates come back, the oldest matching row is
\* beyond the 20 read, and a pair returned also has an older row
C19_Witness ==
  /\ fnOut.done
  /\ Cardinality(MatchingRows) > 20
  /\ Cardinality({PairOf(i) : i \in RecentRows}) > 10
  /\ Len(fnOut.db.value) = 10
  /\ \E k \in 1..10 : \E i \in MatchingRows :
       /\ i < RowOf(k)
       /\ PairOf(i) = PairOf(RowOf(k))
       /\ fnIn.store[i].origin # fnIn.store[RowOf(k)].origin

----------------------------------------------------------------------------
(* Claims on the gazetteer matcher, under SpecGazetteer *)

\* the query as the matcher compares it: trimmed and lower-cased
GazetteerQuery == toLowerCase(trim(fnIn.query))

\* the tier of a place for the query: 0 its name is the query, 1 its name
\* starts with it, 2 its name contains it elsewhere
TierOf(location) ==
  IF toLowerCase(location.name) = GazetteerQuery THEN 0
  ELSE IF startsWith(toLowerCase(location.name), GazetteerQuery) THEN 1
  ELSE 2

\* the places of the gazetteer whose name contains the query
GazetteerMatches ==
  {i \in 1..Len(getAllUSLocations) :
     includes(toLowerCase(getAllUSLocations[i].name), GazetteerQuery)}

----------------------------------------------------------------------------
(* Claims on single places and on the order of the candidates *)

\* the suggestion names one place only: it has no origin, or its origin is
\* its destination
SinglePlace(sug) ==
  sug.origin = <<>> \/ placeOf(sug.origin) = placeOf(sug.destination)

\* C21: no response holds a gazetteer suggestion for a place together with
\* a database or provider suggestion whose only place is that same place.
C21_PlaceOnce ==
  \A i, j \in 1..Len(response.suggestions) :
    LET a == response.suggestions[i]
        b == response.suggestions[j]
    IN  (/\ a.id[1] = "static"
         /\ b.id[1] \in {"db", "ai"}
         /\ SinglePlace(b)) =>
          placeOf(a.destination) # placeOf(b.destination)

----------------------------------------------------------------------------
(* The join of the handler on one list of candidates in two orders *)

\* the list s in the order p: position i holds s[p[i]]
permuted(s, p) == Tuple([i \in 1..Len(s) |-> s[p[i]]])

\* the orders of n candidates
Orders(n) == { p \in [1..n -> 1..n] : \A i, j \in 1..n : p[i] = p[j] => i = j }

InitOrder ==
  /\ now = 0
  /\ rateLimitMap = << >>
  /\ searchRateLimitMap = << >>
  /\ trips = << >>
  /\ lastReq = NoRequest
  /\ response = NoResponse
  /\ ranked = << >>
  /\ called = NoCalls
  /\ \E n \in 0..MaxLen : \E f \in [1..n -> DedupCandidates] :
       \E p \in Orders(n) : fnIn = [list |-> DedupList(f), order |-> p]
  /\ fnOut = [done |-> FALSE, given |-> <<>>, other |-> <<>>]

\* the deduplication and the sort of the handler on the list as given and on
\* the same candidates in the other order
ApplyOrder ==
  /\ ~fnOut.done
  /\ fnOut' = [done |-> TRUE,
               given |-> rankSuggestions(fnIn.list),
               other |-> rankSuggestions(permuted(fnIn.list, fnIn.order))]
  /\ UNCHANGED <<now, rateLimitMap, searchRateLimitMap, trips, lastReq,
                 response, ranked, called, fnIn>>

SpecOrder == InitOrder /\ [][ApplyOrder]_vars

\* the labels of a list of suggestions, in its order
labelsOf(s) == [i \in 1..Len(s) |-> s[i].label]

\* C22: the output of the handler's deduplication and sort is the same for
\* every order of one list of candidates: the same labels in the same order.
C22_OrderIndependent ==
  fnOut.done => labelsOf(fnOut.given) = labelsOf(fnOut.other)

----------------------------------------------------------------------------
(* Requests of one client handled concurrently.  A handler runs without
   interruption up to its first await: the check of the limiter, lines
   418-422, is in the segment that starts at the call of GET, and the handler
   is resumed after the await of line 442. *)

MaxInFlight == 2

\* the Map as checkRateLimit reads it with a read taken at dispatch
mapReadAtDispatch(current, atDispatch) == atDispatch

\* the Map as checkRateLimit reads it: rateLimitMap.get(ip) of line 19 runs in
\* the segment that writes the record, so it reads the Map as it is now and
\* not as it was when the request was dispatched
mapRead(current, atDispatch) == current

\* the one client of this specification sends no address header
ConcurrentKey == getClientIP(NoHeaders)

IdleSlot == [pc |-> "idle", seen |-> << >>]

\* the instants of this specification: the start of a window, its reset time
\* (the last instant that belongs to it, line 21) and the instant after it
ConcurrentInstants == { 0, RATE_LIMIT_WINDOW, RATE_LIMIT_WINDOW + 1 }

\* fnIn holds the requests in flight, fnOut the number of requests admitted
\* at each instant
InitConcurrent ==
  /\ now = 0
  /\ rateLimitMap = << >>
  /\ searchRateLimitMap = << >>
  /\ trips = << >>
  /\ lastReq = NoRequest
  /\ response = NoResponse
  /\ ranked = << >>
  /\ called = NoCalls
  /\ fnIn = [i \in 1..MaxInFlight |-> IdleSlot]
  /\ fnOut = [t \in ConcurrentInstants |-> 0]

\* Date.now() moves on
TickConcurrent ==
  /\ \E t \in ConcurrentInstants :
       /\ t > now
       /\ now' = t
  /\ UNCHANGED <<rateLimitMap, searchRateLimitMap, trips, lastReq, response,
                 ranked, called, fnIn, fnOut>>

\* a request with q of two characters is dispatched to GET
DispatchGET(i) ==
  /\ fnIn[i].pc = "idle"
  /\ fnIn' = [fnIn EXCEPT ![i] = [pc |-> "dispatched", seen |-> rateLimitMap]]
  /\ UNCHANGED <<now, rateLimitMap, searchRateLimitMap, trips, lastReq,
                 response, ranked, called, fnOut>>

\* GET runs from its first line to the await of line 442, or to the return of
\* line 432 when the limiter denies
StartGET(i) ==
  /\ fnIn[i].pc = "dispatched"
  /\ LET r == checkRateLimit(mapRead(rateLimitMap, fnIn[i].seen),
                             ConcurrentKey, now, RATE_LIMIT_MAX_REQUESTS)
     IN  /\ rateLimitMap' = r.map
         /\ fnIn' = [fnIn EXCEPT ![i] =
                       IF r.ok THEN [pc |-> "awaiting", seen |-> << >>]
                       ELSE IdleSlot]
         /\ fnOut' = IF r.ok THEN [fnOut EXCEPT ![now] = @ + 1] ELSE fnOut
  /\ UNCHANGED <<now, searchRateLimitMap, trips, lastReq, response, ranked,
                 called>>

\* the two concurrent calls have settled: GET is resumed and answers
ResumeGET(i) ==
  /\ fnIn[i].pc = "awaiting"
  /\ fnIn' = [fnIn EXCEPT ![i] = IdleSlot]
  /\ UNCHANGED <<now, rateLimitMap, searchRateLimitMap, trips, lastReq,
                 response, ranked, called, fnOut>>

NextConcurrent ==
  \/ TickConcurrent
  \/ \E i \in 1..MaxInFlight : DispatchGET(i)
  \/ \E i \in 1..MaxInFlight : StartGET(i)
  \/ \E i \in 1..MaxInFlight : ResumeGET(i)

SpecConcurrent == InitConcurrent /\ [][NextConcurrent]_vars

\* the number of requests admitted at the instants of S
RECURSIVE admittedAt(_, _)
admittedAt(log, S) ==
  IF S = {} THEN 0
  ELSE LET t == CHOOSE x \in S : TRUE
       IN  log[t] + admittedAt(log, S \ {t})

\* the requests admitted in the window that the record rec counts
admittedInWindow(log, rec) ==
  admittedAt(log, { t \in DOMAIN log :
                      /\ t >= rec.resetTime - RATE_LIMIT_WINDOW
                      /\ t <= rec.resetTime })

\* C23: under every interleaving of the requests of one client, the counter
\* of its record is the number of requests admitted in the current window, it
\* is between 1 and the quota, and at most quota requests are admitted before
\* the reset time.
C23_AtomicLimiter ==
  ConcurrentKey \in DOMAIN rateLimitMap =>
    LET rec == rateLimitMap[ConcurrentKey]
    IN  /\ rec.count = admittedInWindow(fnOut, rec)
        /\ rec.count >= 1
        /\ rec.count <= RATE_LIMIT_MAX_REQUESTS
        /\ admittedInWindow(fnOut, rec) <= RATE_LIMIT_MAX_REQUESTS

\* the quota is used up while two admitted requests are still in flight and
\* a window has already been reset
C23_Witness ==
  /\ ConcurrentKey \in DOMAIN rateLimitMap
  /\ rateLimitMap[ConcurrentKey].count = RATE_LIMIT_MAX_REQUESTS
  /\ rateLimitMap[ConcurrentKey].resetTime > 2 * RATE_LIMIT_WINDOW
  /\ \A i \in 1..2 : fnIn[i].pc = "awaiting"

\* C24: in every interval of 60 s, wherever it starts, the limiter admits at
\* most the quota of requests of one client.
C24_SlidingWindow ==
  \A s \in DOMAIN fnOut :
    admittedAt(fnOut, { t \in DOMAIN fnOut :
                          t >= s /\ t < s + RATE_LIMIT_WINDOW })
      <= RATE_LIMIT_MAX_REQUESTS

----------------------------------------------------------------------------
(* The join of the two concurrent calls, lines 441-447.  The trip store and
   the provider answer when they choose to, or never: neither
   prisma.trip.findMany (line 148) nor openai.chat.completions.create (line
   284) is given a time limit, and the handler sets no timer. *)

IdleJoin == [pc |-> "idle", db |-> "none", ai |-> "none"]

\* fnIn holds the requests in flight
InitJoin ==
  /\ now = 0
  /\ rateLimitMap = << >>
  /\ searchRateLimitMap = << >>
  /\ trips = << >>
  /\ lastReq = NoRequest
  /\ response = NoResponse
  /\ ranked = << >>
  /\ called = NoCalls
  /\ fnIn = [i \in 1..MaxInFlight |-> IdleJoin]
  /\ fnOut = [done |-> FALSE]

\* GET reaches Promise.all: both calls are started, the handler awaits
StartJoin(i) ==
  /\ fnIn[i].pc \in {"idle", "responded"}
  /\ fnIn' = [fnIn EXCEPT ![i] =
                [pc |-> "awaiting", db |-> "pending", ai |-> "pending"]]
  /\ UNCHANGED <<now, rateLimitMap, searchRateLimitMap, trips, lastReq,
                 response, ranked, called, fnOut>>

\* the trip store answers with rows or with an error; getDatabaseSuggestions
\* resolves with its suggestions or, from its catch, with []
StoreSettles(i) ==
  /\ fnIn[i].db = "pending"
  /\ \E outcome \in {"rows", "empty"} :
       fnIn' = [fnIn EXCEPT ![i].db = outcome]
  /\ UNCHANGED <<now, rateLimitMap, searchRateLimitMap, trips, lastReq,
                 response, ranked, called, fnOut>>

\* the provider answers with content or with an error; getAISuggestions
\* resolves with its suggestions or, from its catch, with []
ProviderSettles(i) ==
  /\ fnIn[i].ai = "pending"
  /\ \E outcome \in {"items", "empty"} :
       fnIn' = [fnIn EXCEPT ![i].ai = outcome]
  /\ UNCHANGED <<now, rateLimitMap, searchRateLimitMap, trips, lastReq,
                 response, ranked, called, fnOut>>

\* Promise.all resolves once both promises have: the handler is resumed and
\* answers
JoinSettles(i) ==
  /\ fnIn[i].pc = "awaiting"
  /\ fnIn[i].db # "pending"
  /\ fnIn[i].ai # "pending"
  /\ fnIn' = [fnIn EXCEPT ![i].pc = "responded"]
  /\ UNCHANGED <<now, rateLimitMap, searchRateLimitMap, trips, lastReq,
                 response, ranked, called, fnOut>>

NextJoin ==
  \/ \E i \in 1..MaxInFlight : StartJoin(i)
  \/ \E i \in 1..MaxInFlight : StoreSettles(i)
  \/ \E i \in 1..MaxInFlight : ProviderSettles(i)
  \/ \E i \in 1..MaxInFlight : JoinSettles(i)

\* The event loop runs a handler whose awaited promise has resolved; nothing
\* obliges the store or the provider to answer.
SpecJoin ==
  /\ InitJoin
  /\ [][NextJoin]_vars
  /\ \A i \in 1..MaxInFlight : WF_vars(JoinSettles(i))

\* C25: every request that awaits its two concurrent calls is answered in
\* the end, whether or not the store and the provider answer.
C25_AlwaysResponds ==
  \A i \in 1..MaxInFlight :
    (fnIn[i].pc = "awaiting") ~> (fnIn[i].pc = "responded")

----------------------------------------------------------------------------
(* Claim on the isolation of the rate-limit records, under SpecLimiter *)

\* the client keys of the requests
ClientKeys == { getClientIP(h) : h \in HeaderSets }

\* the record of a key in a Map, << >> when the key has none
recordOf(map, key) == IF key \in DOMAIN map THEN map[key] ELSE << >>

\* whether a request of the key that consulted the limiter at t would be
\* admitted
wouldAdmit(map, key, t) ==
  checkRateLimit(map, key, t, RATE_LIMIT_MAX_REQUESTS).ok

\* C26: the record of a key changes only in a step that handles an admitted
\* request of that key; a request of another key leaves the record, and
\* whether the key's next request is admitted, as they were; the requests
\* without an address header all have the key "unknown".
C26_KeysIsolated ==
  [][/\ \A b \in ClientKeys :
          /\ recordOf(rateLimitMap', b) # recordOf(rateLimitMap, b)
               => /\ RequestStep
                  /\ lastReq'.ip = b
                  /\ lastReq'.admitted = "yes"
          /\ (RequestStep /\ lastReq'.ip # b)
               => wouldAdmit(rateLimitMap', b, now')
                    = wouldAdmit(rateLimitMap, b, now)
     /\ DOMAIN rateLimitMap' \subseteq ClientKeys
     /\ getClientIP(NoHeaders) = "unknown"]_vars

\* C26 witness: a request without address headers was admitted under the key
\* "unknown" while the record of another key stands at the quota
C26_Witness ==
  /\ lastReq.ip = "unknown"
  /\ lastReq.admitted = "yes"
  /\ lastReq.before # << >>
  /\ \E b \in DOMAIN rateLimitMap :
       /\ b # "unknown"
       /\ rateLimitMap[b].count = RATE_LIMIT_MAX_REQUESTS

----------------------------------------------------------------------------
(* POST /api/plan: the generated route options and their saving *)

\* String.prototype.charCodeAt(0) of a letter or a space
charCodeAt(c) ==
  IF \E i \in 1..26 : UpperChars[i] = c
  THEN 64 + (CHOOSE i \in 1..26 : UpperChars[i] = c)
  ELSE IF \E i \in 1..26 : LowerChars[i] = c
       THEN 96 + (CHOOSE i \in 1..26 : LowerChars[i] = c)
       ELSE 32

\* the reduce of estimateDistance: the sum of the character codes
RECURSIVE sumCodes(_)
sumCodes(s) == IF s = << >> THEN 0 ELSE charCodeAt(Head(s)) + sumCodes(Tail(s))

estimateDistance(origin, destination) ==
  100 + (sumCodes(origin \o destination) % 1100)

\* Math.round(a / b) for b > 0: the nearest integer, halves upwards
roundDiv(a, b) == (2 * a + b) \div (2 * b)

Max(a, b) == IF a >= b THEN a ELSE b

Min(a, b) == IF a <= b THEN a ELSE b

\* the emission factors of estimateCO2, in g CO2 per passenger-km
co2Factor(mode) ==
  CASE mode = "train" -> 41
    [] mode = "car" -> 171
    [] mode = "flight" -> 255
    [] OTHER -> 200

\* Math.round(estimateCO2(mode, distanceKm) * 10): co2Kg in tenths of a kg
co2Tenths(mode, distanceKm) == roundDiv(co2Factor(mode) * distanceKm, 100)

\* the three options of generateMockRoutes before the test on the flight and
\* the sort.  draws[1..6] are the values of Math.random() in the order of the
\* calls, in hundredths.
mockOptions(safeDistance, budget, draws) ==
  LET trainCo2 == co2Tenths("train", safeDistance)
      carCo2 == co2Tenths("car", safeDistance)
      flightCo2 == co2Tenths("flight", safeDistance)
  IN  << [mode |-> "train",
          cost |-> Max(50, Min(budget,
                     roundDiv(5000 + 15 * safeDistance + 100 * draws[1], 100))),
          durationMins |-> Max(60, Min(600,
                     roundDiv(6000 + 80 * safeDistance + 120 * draws[2], 100))),
          co2Kg |-> trainCo2,
          ecoScore |-> Max(70, Min(100,
                     roundDiv(100 * safeDistance - 50 * trainCo2, safeDistance)))],
         [mode |-> "car",
          cost |-> Max(50, Min(budget,
                     roundDiv(8000 + 25 * safeDistance + 150 * draws[3], 100))),
          durationMins |-> Max(60, Min(600,
                     roundDiv(9000 + 120 * safeDistance + 180 * draws[4], 100))),
          co2Kg |-> carCo2,
          ecoScore |-> Max(40, Min(69,
                     roundDiv(70 * safeDistance - 30 * carCo2, safeDistance)))],
         [mode |-> "flight",
          cost |-> Max(50, Min(budget,
                     roundDiv(10000 + 50 * safeDistance + 200 * draws[5], 100))),
          durationMins |-> Max(60, Min(600,
                     roundDiv(6000 + 30 * safeDistance + 60 * draws[6], 100))),
          co2Kg |-> flightCo2,
          ecoScore |-> Max(0, Min(39,
                     roundDiv(40 * safeDistance - 20 * flightCo2, safeDistance)))] >>

\* generateMockRoutes: the flight is pushed only if its cost is within the
\* budget; the routes are sorted by eco score, highest first
generateMockRoutes(origin, destination, budget, draws) ==
  LET distance == estimateDistance(origin, destination)
      safeDistance == Max(50, Min(1200, distance))
      all == mockOptions(safeDistance, budget, draws)
      routes == IF all[3].cost <= budget THEN all ELSE SubSeq(all, 1, 2)
      cmp == [a \in 1..Len(routes), b \in 1..Len(routes) |->
                routes[b].ecoScore - routes[a].ecoScore]
  IN  stableSort(routes, cmp)

\* the bodies of the requests.  schema: whether planSchemaEnhanced accepts
\* the body; optionSchema: whether RouteOptionSchema accepts the generated
\* options (both schemas are imported from lib/validators); tripId is << >>
\* when the body has none.
PlanDefaults ==
  [origin |-> Boston, destination |-> NewYork, budget |-> 200,
   tripId |-> <<"t1">>, json |-> TRUE, schema |-> TRUE, optionSchema |-> TRUE]

PlanBodies ==
  { PlanDefaults,
    [PlanDefaults EXCEPT !.budget = 10000],
    [PlanDefaults EXCEPT !.budget = 10, !.tripId = << >>],
    [PlanDefaults EXCEPT !.budget = 0],
    [PlanDefaults EXCEPT !.budget = 10001],
    [PlanDefaults EXCEPT !.destination = toLowerCase(Boston) \o <<" ">>],
    [PlanDefaults EXCEPT !.origin = <<"B", " ">>],
    [PlanDefaults EXCEPT !.json = FALSE],
    [PlanDefaults EXCEPT !.schema = FALSE],
    [PlanDefaults EXCEPT !.optionSchema = FALSE] }

\* the values of the six calls of Math.random(), in hundredths
PlanDraws == { <<0, 0, 0, 0, 0, 0>>, <<98, 98, 98, 98, 98, 98>> }

\* the conditions of lines 111-147 under which POST throws a ValidationError
planInvalid(body) ==
  \/ ~body.json
  \/ ~body.schema
  \/ Len(trim(body.origin)) < 2
  \/ Len(trim(body.destination)) < 2
  \/ body.budget <= 0
  \/ body.budget > 10000
  \/ trim(toLowerCase(body.origin)) = trim(toLowerCase(body.destination))

\* the rows createMany writes for the validated options
optionRows(options) ==
  Tuple([k \in 1..Len(options) |->
     [mode |-> options[k].mode, cost |-> options[k].cost,
      durationMins |-> options[k].durationMins, co2Kg |-> options[k].co2Kg,
      ecoScore |-> options[k].ecoScore]])

IdlePlan ==
  [pc |-> "idle", body |-> PlanDefaults, options |-> << >>, before |-> << >>,
   failed |-> FALSE, saved |-> FALSE,
   answer |-> [status |-> 0, success |-> FALSE, routes |-> << >>]]

\* the response of lines 230-235
planSuccess(options) == [status |-> 200, success |-> TRUE, routes |-> options]

\* the rows stored for the trip by an earlier request
OldRows ==
  optionRows(generateMockRoutes(Boston, NewYork, 100, <<50, 50, 50, 50, 50, 50>>))

\* fnIn holds the requests in flight, fnOut the RouteOption rows of the trip
InitPlan ==
  /\ now = 0
  /\ rateLimitMap = << >>
  /\ searchRateLimitMap = << >>
  /\ trips = << >>
  /\ lastReq = NoRequest
  /\ response = NoResponse
  /\ ranked = << >>
  /\ called = NoCalls
  /\ fnIn = [i \in 1..MaxInFlight |-> IdlePlan]
  /\ fnOut \in { << >>, OldRows }

PlanUnchanged ==
  UNCHANGED <<now, rateLimitMap, searchRateLimitMap, trips, lastReq, response,
              ranked, called>>

\* POST from its first line to the await of getServerSession (line 187), or
\* to its response when the body is invalid, no option is valid or the body
\* has no tripId
PlanStart(i, body, draws) ==
  /\ fnIn[i].pc = "idle"
  /\ LET options == IF body.optionSchema
                    THEN generateMockRoutes(body.origin, body.destination,
                                            body.budget, draws)
                    ELSE << >>
         slot == [fnIn[i] EXCEPT !.body = body, !.before = fnOut]
     IN  fnIn' = [fnIn EXCEPT ![i] =
           IF planInvalid(body)
           THEN [slot EXCEPT !.pc = "responded", !.answer.status = 400]
           ELSE IF options = << >>
           THEN [slot EXCEPT !.pc = "responded", !.answer.status = 200]
           ELSE IF body.tripId = << >>
           THEN [slot EXCEPT !.pc = "responded", !.options = options,
                             !.answer = planSuccess(options)]
           ELSE [slot EXCEPT !.pc = "session", !.options = options]]
  /\ UNCHANGED fnOut
  /\ PlanUnchanged

\* the response after the save was skipped (`failed` FALSE) or threw into the
\* catch of line 224
planSkip(slot, failed) ==
  [slot EXCEPT !.pc = "responded", !.failed = failed,
               !.answer = planSuccess(slot.options)]

\* getServerSession settles: no session, the session of a user, or an error
PlanSession(i, outcome) ==
  /\ fnIn[i].pc = "session"
  /\ fnIn' = [fnIn EXCEPT ![i] =
       CASE outcome = "user" -> [@ EXCEPT !.pc = "find"]
         [] outcome = "none" -> planSkip(@, FALSE)
         [] OTHER -> planSkip(@, TRUE)]
  /\ UNCHANGED fnOut
  /\ PlanUnchanged

\* prisma.trip.findFirst settles: the user's trip, null, or an error
PlanFind(i, outcome) ==
  /\ fnIn[i].pc = "find"
  /\ fnIn' = [fnIn EXCEPT ![i] =
       CASE outcome = "trip" -> [@ EXCEPT !.pc = "delete"]
         [] outcome = "null" -> planSkip(@, FALSE)
         [] OTHER -> planSkip(@, TRUE)]
  /\ UNCHANGED fnOut
  /\ PlanUnchanged

\* prisma.routeOption.deleteMany settles: the rows of the trip are deleted,
\* or the store fails
PlanDelete(i, ok) ==
  /\ fnIn[i].pc = "delete"
  /\ fnIn' = [fnIn EXCEPT ![i] =
       IF ok THEN [@ EXCEPT !.pc = "create"] ELSE planSkip(@, TRUE)]
  /\ fnOut' = IF ok THEN << >> ELSE fnOut
  /\ PlanUnchanged

\* prisma.routeOption.createMany settles: the rows of the options are added,
\* or the store fails
PlanCreate(i, ok) ==
  /\ fnIn[i].pc = "create"
  /\ fnIn' = [fnIn EXCEPT ![i] =
       IF ok THEN [planSkip(@, FALSE) EXCEPT !.saved = TRUE]
       ELSE planSkip(@, TRUE)]
  /\ fnOut' = IF ok THEN fnOut \o optionRows(fnIn[i].options) ELSE fnOut
  /\ PlanUnchanged

NextPlan ==
  \/ \E i \in 1..MaxInFlight, body \in PlanBodies, draws \in PlanDraws :
       PlanStart(i, body, draws)
  \/ \E i \in 1..MaxInFlight, outcome \in {"user", "none", "throws"} :
       PlanSession(i, outcome)
  \/ \E i \in 1..MaxInFlight, outcome \in {"trip", "null", "throws"} :
       PlanFind(i, outcome)
  \/ \E i \in 1..MaxInFlight, ok \in BOOLEAN : PlanDelete(i, ok)
  \/ \E i \in 1..MaxInFlight, ok \in BOOLEAN : PlanCreate(i, ok)

SpecPlan == InitPlan /\ [][NextPlan]_vars

----------------------------------------------------------------------------
(* Claims on POST /api/plan, under SpecPlan *)

\* every request has been answered or was never sent
PlanQuiet == \A i \in 1..MaxInFlight : fnIn[i].pc \in {"idle", "responded"}

\* C27: once the concurrent requests of the trip's owner have all completed,
\* none of them having met a failure of the store, the rows stored for the
\* trip are the options of one of the requests that saved.
C27_OneRequestsOptions ==
  (/\ PlanQuiet
   /\ \A i \in 1..MaxInFlight : ~fnIn[i].failed
   /\ \E i \in 1..MaxInFlight : fnIn[i].saved) =>
     \E i \in 1..MaxInFlight :
       /\ fnIn[i].saved
       /\ fnOut = optionRows(fnIn[i].options)

\* C28: a request whose save met a failure of the store, no other request
\* being handled, is answered with success and its routes, and the rows
\* stored for the trip are the rows from before the request or the rows of
\* its options.
C28_FailedSaveKeepsRows ==
  \A i \in 1..MaxInFlight :
    (/\ fnIn[i].pc = "responded"
     /\ fnIn[i].failed
     /\ \A j \in 1..MaxInFlight : j # i => fnIn[j].pc = "idle") =>
       /\ fnIn[i].answer = planSuccess(fnIn[i].options)
       /\ fnOut \in { fnIn[i].before, optionRows(fnIn[i].options) }

\* C29: every route of a successful response costs at most the budget of
\* the request.
C29_CostWithinBudget ==
  \A i \in 1..MaxInFlight :
    (fnIn[i].pc = "responded" /\ fnIn[i].answer.status = 200) =>
      \A k \in 1..Len(fnIn[i].answer.routes) :
        fnIn[i].answer.routes[k].cost <= fnIn[i].body.budget

----------------------------------------------------------------------------
(* AutocompleteInput: keystrokes, the debounce timer and the responses of
   the fetches.  fnIn holds the state of the component, fnOut the fetches in
   flight in the order of their issue, each with the `active` flag of the
   effect that issued it. *)

\* the values typed into the input
InputValues == { << >>, Str_n, Str_an, Str_bo }

\* the suggestions of the endpoint's answer for a query: none, or one whose
\* label is the query
answerFor(q) == << [label |-> q] >>

InitAutocomplete ==
  /\ now = 0
  /\ rateLimitMap = << >>
  /\ searchRateLimitMap = << >>
  /\ trips = << >>
  /\ lastReq = NoRequest
  /\ response = NoResponse
  /\ ranked = << >>
  /\ called = NoCalls
  /\ fnIn = [query |-> << >>, debouncedQuery |-> << >>, suggestions |-> << >>,
             loading |-> FALSE, isOpen |-> FALSE, timer |-> FALSE]
  /\ fnOut = << >>

AutocompleteUnchanged ==
  UNCHANGED <<now, rateLimitMap, searchRateLimitMap, trips, lastReq, response,
              ranked, called>>

\* handleInputChange: the query changes, the dropdown opens, and the debounce
\* effect replaces its timer
handleInputChange(newValue) ==
  /\ fnIn' = [fnIn EXCEPT !.query = newValue, !.isOpen = TRUE,
                          !.timer = IF newValue # fnIn.query THEN TRUE ELSE @]
  /\ UNCHANGED fnOut
  /\ AutocompleteUnchanged

\* the timer of 300 ms fires: setDebouncedQuery(query).  When the debounced
\* query changes, the cleanup of the fetch effect clears `active` of the
\* fetch it issued and the effect runs again: it clears the suggestions for a
\* query under 2 characters, or sets loading and issues a fetch.
debounceFires ==
  /\ fnIn.timer
  /\ LET q == fnIn.query
         changed == q # fnIn.debouncedQuery
         short == Len(trim(q)) < 2
         stale == Tuple([k \in 1..Len(fnOut) |-> [fnOut[k] EXCEPT !.active = FALSE]])
     IN  /\ changed /\ ~short => Len(fnOut) < MaxInFlight
         /\ fnIn' =
              IF ~changed THEN [fnIn EXCEPT !.timer = FALSE]
              ELSE IF short
              THEN [fnIn EXCEPT !.timer = FALSE, !.debouncedQuery = q,
                                !.suggestions = << >>, !.loading = FALSE,
                                !.isOpen = FALSE]
              ELSE [fnIn EXCEPT !.timer = FALSE, !.debouncedQuery = q,
                                !.loading = TRUE]
         /\ fnOut' =
              IF ~changed THEN fnOut
              ELSE IF short THEN stale
              ELSE Append(stale, [q |-> trim(q), active |-> TRUE])
  /\ AutocompleteUnchanged

\* the fetch k settles and fetchSuggestions goes on after its awaits: with a
\* list of suggestions ("ok"; `some` tells whether the list has an entry), a
\* response that is not ok ("status"), or an exception ("throws")
fetchSettles(k, outcome, some) ==
  /\ k \in 1..Len(fnOut)
  /\ fnOut' = [j \in 1..(Len(fnOut) - 1) |->
                 IF j < k THEN fnOut[j] ELSE fnOut[j + 1]] \o << >>
  /\ LET data == IF some THEN answerFor(fnOut[k].q) ELSE << >>
         fetched == slice0(data, 8)
     IN  fnIn' =
           IF ~fnOut[k].active THEN fnIn
           ELSE IF outcome = "ok"
           THEN [fnIn EXCEPT !.suggestions = fetched,
                             !.isOpen = Len(fetched) > 0, !.loading = FALSE]
           ELSE [fnIn EXCEPT !.suggestions = << >>, !.loading = FALSE]
  /\ AutocompleteUnchanged

NextAutocomplete ==
  \/ \E newValue \in InputValues : handleInputChange(newValue)
  \/ debounceFires
  \/ \E k \in 1..MaxInFlight, outcome \in {"ok", "status", "throws"} :
       \E some \in BOOLEAN : fetchSettles(k, outcome, some)

SpecAutocomplete == InitAutocomplete /\ [][NextAutocomplete]_vars

StaleResponseDropped ==
  [][\A k \in 1..Len(fnOut) :
       (~fnOut[k].active /\ Len(fnOut') = Len(fnOut) - 1
          /\ \A j \in 1..Len(fnOut') : fnOut'[j] = fnOut[IF j < k THEN j ELSE j + 1])
         => fnIn' = fnIn]_vars

====
